---- MODULE Spec2Model ----
(***************************************************************************)
(* Model of src/analysis/final_report_generator.py: the loader             *)
(* clean_and_load_data, the three validators, the tiering done by          *)
(* generate_enhanced_report, and main() that chains them; and of           *)
(* src/analysis/gnss_power_analysis.py: the loader load_gnss_power_data,   *)
(* analyze_power_flow, analyze_gnss_power_correlation and its main(); of    *)
(* the conclusion of src/analysis/power_comparison_analysis.py; and of the *)
(* Anomaly Repairer, which has no source file and is modelled from its     *)
(* written description.                                                    *)
(*                                                                         *)
(* A DataFrame is a record [columns, rows]: the sequence of column names   *)
(* and the sequence of rows, a row being a function from column name to    *)
(* cell.  A float64 is a record [k, n, d]: k = "num" is the rational n/d   *)
(* (d > 0, lowest terms), k = "nan" is NaN, k = "inf" is +inf (n = 1) or   *)
(* -inf (n = -1).  Rounding of binary floating point is not modelled: the  *)
(* arithmetic is exact on rationals.  A cell read from the file that does  *)
(* not parse as a number has k = "text".                                   *)
(***************************************************************************)
EXTENDS Integers, Sequences, FiniteSets, TLC

VARIABLES pc, csv, df, charge_validation, sensor_comparison, energy_analysis, report,
          power_analysis, gnss_analysis

vars == <<pc, csv, df, charge_validation, sensor_comparison, energy_analysis, report,
          power_analysis, gnss_analysis>>

----------------------------------------------------------------------------
(* float64 arithmetic (numpy semantics: division by zero gives inf or nan) *)

AbsInt(i) == IF i < 0 THEN -i ELSE i

SignInt(i) == IF i < 0 THEN -1 ELSE IF i > 0 THEN 1 ELSE 0

RECURSIVE GCD(_, _)
GCD(a, b) == IF b = 0 THEN a ELSE GCD(b, a % b)

Num(n, d) ==
    LET s == IF d < 0 THEN -1 ELSE 1
        g == GCD(AbsInt(n), AbsInt(d))
    IN  [k |-> "num", n |-> (s * n) \div g, d |-> (s * d) \div g]

Int2F(i) == [k |-> "num", n |-> i, d |-> 1]

NaN == [k |-> "nan", n |-> 0, d |-> 1]

Inf(s) == [k |-> "inf", n |-> s, d |-> 1]

BadText == [k |-> "text", n |-> 0, d |-> 1]

IsNaN(a) == a.k = "nan"

IsZero(a) == a.k = "num" /\ a.n = 0

FNeg(a) == IF a.k = "nan" THEN NaN ELSE [a EXCEPT !.n = -a.n]

FAbs(a) == IF a.k = "nan" THEN NaN ELSE [a EXCEPT !.n = AbsInt(a.n)]

FAdd(a, b) ==
    IF a.k = "nan" \/ b.k = "nan" THEN NaN
    ELSE IF a.k = "inf" /\ b.k = "inf" THEN (IF a.n = b.n THEN a ELSE NaN)
    ELSE IF a.k = "inf" THEN a
    ELSE IF b.k = "inf" THEN b
    ELSE Num(a.n * b.d + b.n * a.d, a.d * b.d)

FSub(a, b) == FAdd(a, FNeg(b))

FMul(a, b) ==
    IF a.k = "nan" \/ b.k = "nan" THEN NaN
    ELSE IF a.k = "inf" \/ b.k = "inf"
         THEN (IF a.n = 0 \/ b.n = 0 THEN NaN ELSE Inf(SignInt(a.n) * SignInt(b.n)))
    ELSE Num(a.n * b.n, a.d * b.d)

FDiv(a, b) ==
    IF a.k = "nan" \/ b.k = "nan" THEN NaN
    ELSE IF a.k = "inf" /\ b.k = "inf" THEN NaN
    ELSE IF a.k = "inf" THEN Inf(a.n * (IF b.n < 0 THEN -1 ELSE 1))
    ELSE IF b.k = "inf" THEN Int2F(0)
    ELSE IF b.n = 0 THEN (IF a.n = 0 THEN NaN ELSE Inf(SignInt(a.n)))
    ELSE Num(a.n * b.d, a.d * b.n)

(* a < b; any comparison with NaN is False *)
FLt(a, b) ==
    IF a.k = "nan" \/ b.k = "nan" THEN FALSE
    ELSE IF a.k = "inf" THEN a.n = -1 /\ ~(b.k = "inf" /\ b.n = -1)
    ELSE IF b.k = "inf" THEN b.n = 1
    ELSE a.n * b.d < b.n * a.d

(* a != b; NaN != anything is True *)
FNeq(a, b) == IF a.k = "nan" \/ b.k = "nan" THEN TRUE ELSE a # b

IsFinite(a) == a.k = "num"

----------------------------------------------------------------------------
(* pandas Series / DataFrame helpers *)

Range(s) == {s[i] : i \in 1..Len(s)}

HasColumn(d, c) == c \in Range(d.columns)

HasAll(d, cols) == \A c \in cols : HasColumn(d, c)

(* df[c] as a sequence of cells *)
Column(rows, c) == [i \in 1..Len(rows) |-> rows[i][c]]

RECURSIVE SeriesSum(_)
(* Series.sum(): NaN entries are skipped, the empty sum is 0 *)
SeriesSum(s) ==
    IF Len(s) = 0 THEN Int2F(0)
    ELSE IF IsNaN(s[1]) THEN SeriesSum(Tail(s))
    ELSE FAdd(s[1], SeriesSum(Tail(s)))

SeriesCount(s) == Cardinality({i \in 1..Len(s) : ~IsNaN(s[i])})

(* Series.mean(): NaN entries are skipped, NaN when nothing is left *)
SeriesMean(s) ==
    IF SeriesCount(s) = 0 THEN NaN ELSE FDiv(SeriesSum(s), Int2F(SeriesCount(s)))

(* Series.abs().max(): NaN entries are skipped, NaN when nothing is left *)
SeriesAbsMax(s) ==
    LET valid == {i \in 1..Len(s) : ~IsNaN(s[i])}
    IN  IF valid = {} THEN NaN
        ELSE LET m == CHOOSE i \in valid : \A j \in valid : ~FLt(FAbs(s[i]), FAbs(s[j]))
             IN  FAbs(s[m])

(* Series.max() / Series.min(): NaN entries are skipped, NaN when nothing is left *)
SeriesMax(s) ==
    LET valid == {i \in 1..Len(s) : ~IsNaN(s[i])}
    IN  IF valid = {} THEN NaN
        ELSE s[CHOOSE i \in valid : \A j \in valid : ~FLt(s[i], s[j])]

SeriesMin(s) ==
    LET valid == {i \in 1..Len(s) : ~IsNaN(s[i])}
    IN  IF valid = {} THEN NaN
        ELSE s[CHOOSE i \in valid : \A j \in valid : ~FLt(s[j], s[i])]

(* a - b, element by element *)
SeriesSub(a, b) == [i \in 1..Len(a) |-> FSub(a[i], b[i])]

SeriesMul(a, b) == [i \in 1..Len(a) |-> FMul(a[i], b[i])]

(* Series.corr(other), Pearson: pairs with a NaN are dropped; NaN when fewer  *)
(* than 2 pairs are left or when either side has zero variance (0/0).         *)
(* Otherwise r = sgn * sqrt(sq), kept exact as the pair (sgn, sq).            *)
SeriesCorr(a, b) ==
    LET valid == {i \in 1..Len(a) : ~IsNaN(a[i]) /\ ~IsNaN(b[i])}
        mask(s) == [i \in 1..Len(s) |-> IF i \in valid THEN s[i] ELSE NaN]
        x   == mask(a)
        y   == mask(b)
        n   == Int2F(Cardinality(valid))
        Sxy == FSub(FMul(n, SeriesSum(SeriesMul(x, y))), FMul(SeriesSum(x), SeriesSum(y)))
        Sxx == FSub(FMul(n, SeriesSum(SeriesMul(x, x))), FMul(SeriesSum(x), SeriesSum(x)))
        Syy == FSub(FMul(n, SeriesSum(SeriesMul(y, y))), FMul(SeriesSum(y), SeriesSum(y)))
    IN  IF Cardinality(valid) < 2 \/ IsZero(Sxx) \/ IsZero(Syy)
        THEN [k |-> "nan", sgn |-> 0, sq |-> NaN]
        ELSE [k |-> "r", sgn |-> SignInt(Sxy.n), sq |-> FMul(FDiv(Sxy, Sxx), FDiv(Sxy, Syy))]

CorrIsOne(r) == r.k = "r" /\ r.sgn = 1 /\ r.sq = Int2F(1)

CorrIsNaN(r) == r.k = "nan"

(* df[c] = value(row): the column is replaced, or appended when new *)
AssignColumn(d, c, value(_)) ==
    [columns |-> IF HasColumn(d, c) THEN d.columns ELSE Append(d.columns, c),
     rows    |-> [i \in 1..Len(d.rows) |-> (c :> value(d.rows[i])) @@ d.rows[i]]]

(* df.rename(columns=mapping): names absent from the mapping are kept *)
RenameColumns(d, mapping(_)) ==
    [columns |-> [i \in 1..Len(d.columns) |-> mapping(d.columns[i])],
     rows    |-> [i \in 1..Len(d.rows) |->
                    [c \in {mapping(o) : o \in DOMAIN d.rows[i]} |->
                        d.rows[i][CHOOSE o \in DOMAIN d.rows[i] : mapping(o) = c]]]]

(* df.dropna(subset=[c]): rows whose cell c is NaN are removed, order kept *)
DropNa(d, c) ==
    [columns |-> d.columns,
     rows    |-> SelectSeq(d.rows, LAMBDA r : ~IsNaN(r[c]))]

(* df.dropna(subset=cols): rows with a NaN in any of the columns are removed *)
DropNaAny(d, cols) ==
    [columns |-> d.columns,
     rows    |-> SelectSeq(d.rows, LAMBDA r : \A c \in cols : ~IsNaN(r[c]))]

(* df[df['TestState'] == state] *)
StateData(rows, state) == SelectSeq(rows, LAMBDA r : r["TestState"] = state)

(* df['TestState'].unique() *)
UniqueStates(rows) == {rows[i]["TestState"] : i \in 1..Len(rows)}

(* the sequence without its i-th element *)
RemoveAt(rows, i) == SubSeq(rows, 1, i - 1) \o SubSeq(rows, i + 1, Len(rows))

(* variant: the rows are left in arrival order *)
sort_values_arrival_order(rows) == {rows}

RECURSIVE sort_values(_)
(* sort_values('EntryTimestamp_ms'): the default sort kind is not stable, so  *)
(* rows with equal timestamps may come out in any order: every ordering of    *)
(* the rows by nondecreasing timestamp is a possible result.                  *)
sort_values(rows) ==
    IF Len(rows) = 0 THEN {<<>>}
    ELSE UNION {{<<rows[i]>> \o rest : rest \in sort_values(RemoveAt(rows, i))} :
                  i \in {m \in 1..Len(rows) :
                            \A j \in 1..Len(rows) :
                                rows[m]["EntryTimestamp_ms"] <= rows[j]["EntryTimestamp_ms"]}}

----------------------------------------------------------------------------
(* clean_and_load_data *)

NEW_COLUMN_NAMES ==
    <<"TestRunID", "TestState", "EntryTimestamp_ms",
      "Batt_Voltage_V", "Batt_Current_mA", "Batt_Power_mW", "Batt_Energy_J",
      "Batt_Charge_C", "Batt_Diagnostic",
      "Load_Voltage_V", "Load_Current_mA", "Load_Power_mW", "Load_Energy_J",
      "Load_Charge_C", "Load_Diagnostic">>

(* header of the old 6-column files *)
OLD_COLUMN_NAMES ==
    <<"TestRunID", "TestState", "EntryTimestamp_ms", "Voltage_V", "Current_mA", "Power_mW">>

(* variant: voltage and current are renamed to each other's column *)
old_to_new_mapping_swapped(c) ==
    CASE c = "Voltage_V"  -> "Batt_Current_mA"
      [] c = "Current_mA" -> "Batt_Voltage_V"
      [] c = "Power_mW"   -> "Batt_Power_mW"
      [] OTHER            -> c

old_to_new_mapping(c) ==
    CASE c = "Voltage_V"  -> "Batt_Voltage_V"
      [] c = "Current_mA" -> "Batt_Current_mA"
      [] c = "Power_mW"   -> "Batt_Power_mW"
      [] OTHER            -> c

(* any(x in col for x in ['Voltage', 'Current', 'Power', 'Energy', 'Charge']) *)
numeric_cols(d) ==
    {c \in Range(d.columns) :
        c \in {"Voltage_V", "Current_mA", "Power_mW",
               "Batt_Voltage_V", "Batt_Current_mA", "Batt_Power_mW", "Batt_Energy_J",
               "Batt_Charge_C", "Load_Voltage_V", "Load_Current_mA", "Load_Power_mW",
               "Load_Energy_J", "Load_Charge_C", "Battery_Power_mW"}}

(* 'Power' in col and 'mW' in col *)
power_cols(d) ==
    SelectSeq(d.columns, LAMBDA c : c \in {"Power_mW", "Batt_Power_mW", "Load_Power_mW",
                                            "Battery_Power_mW"})

(* variant: a cell that does not parse becomes 0 *)
to_numeric_as_zero(cell) == IF cell.k = "text" THEN Int2F(0) ELSE cell

(* pd.to_numeric(cell, errors='coerce') *)
to_numeric(cell) == IF cell.k = "text" THEN NaN ELSE cell

(* the 6-column branch: rename, placeholders, duplicate battery as load *)
ConvertOldFormat(d) ==
    LET d0 == RenameColumns(d, old_to_new_mapping)
        d1 == AssignColumn(d0, "Batt_Energy_J", LAMBDA r : Int2F(0))
        d2 == AssignColumn(d1, "Batt_Charge_C", LAMBDA r : Int2F(0))
        d3 == AssignColumn(d2, "Batt_Diagnostic", LAMBDA r : 0)
        d4 == AssignColumn(d3, "Load_Voltage_V", LAMBDA r : r["Batt_Voltage_V"])
        d5 == AssignColumn(d4, "Load_Current_mA", LAMBDA r : r["Batt_Current_mA"])
        d6 == AssignColumn(d5, "Load_Power_mW", LAMBDA r : r["Batt_Power_mW"])
        d7 == AssignColumn(d6, "Load_Energy_J", LAMBDA r : Int2F(0))
        d8 == AssignColumn(d7, "Load_Charge_C", LAMBDA r : Int2F(0))
    IN  AssignColumn(d8, "Load_Diagnostic", LAMBDA r : 0)

CoerceNumeric(d) ==
    [columns |-> d.columns,
     rows    |-> [i \in 1..Len(d.rows) |->
                    [c \in DOMAIN d.rows[i] |->
                        IF c \in numeric_cols(d) THEN to_numeric(d.rows[i][c])
                        ELSE d.rows[i][c]]]]

DropInvalidPower(d) ==
    IF HasColumn(d, "Battery_Power_mW") THEN DropNa(d, "Battery_Power_mW")
    ELSE IF HasColumn(d, "Batt_Power_mW") THEN DropNa(d, "Batt_Power_mW")
    ELSE IF Len(power_cols(d)) > 0 THEN DropNa(d, power_cols(d)[1])
    ELSE d

clean_and_load_data(file) ==
    LET converted == IF Len(file.columns) = 6 THEN ConvertOldFormat(file) ELSE file
    IN  DropInvalidPower(CoerceNumeric(converted))

----------------------------------------------------------------------------
(* validators *)

(* a result dict: one entry per key, the entry being any of Entries(key) *)
Dicts(keys, Entries(_)) ==
    {f \in [keys -> UNION {Entries(s) : s \in keys}] : \A s \in keys : f[s] \in Entries(s)}

sampling_interval_s == Int2F(1)

(* variant: the error taken relative to the manual value *)
charge_error_pct_rel_manual(manual, hardware_delta) ==
    IF FNeq(hardware_delta, Int2F(0))
    THEN FMul(FDiv(FAbs(FSub(manual, hardware_delta)), FAbs(manual)), Int2F(100))
    ELSE Inf(1)

(* |manual - hardware| / |hardware| * 100, inf when hardware = 0 *)
charge_error_pct(manual, hardware_delta) ==
    IF FNeq(hardware_delta, Int2F(0))
    THEN FMul(FDiv(FAbs(FSub(manual, hardware_delta)), FAbs(hardware_delta)), Int2F(100))
    ELSE Inf(1)

manual_charge(state_data, current_col) ==
    FMul(FDiv(SeriesSum(Column(state_data, current_col)), Int2F(1000)), sampling_interval_s)

hardware_charge_delta(state_data, charge_col) ==
    FSub(state_data[Len(state_data)][charge_col], state_data[1][charge_col])

(* the body of the loop of validate_charge_accumulation, after the sort *)
ChargeEntry(state_data) ==
    LET batt_manual_charge == manual_charge(state_data, "Batt_Current_mA")
        batt_hardware_charge_delta == hardware_charge_delta(state_data, "Batt_Charge_C")
        load_manual_charge == manual_charge(state_data, "Load_Current_mA")
        load_hardware_charge_delta == hardware_charge_delta(state_data, "Load_Charge_C")
    IN  [batt_manual_charge_C   |-> batt_manual_charge,
         batt_hardware_charge_C |-> batt_hardware_charge_delta,
         batt_error_pct         |-> charge_error_pct(batt_manual_charge, batt_hardware_charge_delta),
         load_manual_charge_C   |-> load_manual_charge,
         load_hardware_charge_C |-> load_hardware_charge_delta,
         load_error_pct         |-> charge_error_pct(load_manual_charge, load_hardware_charge_delta),
         sample_count           |-> Len(state_data)]

(* variant: the test reads the current columns instead of the charge columns *)
has_real_charge_data_from_current(d) ==
    \/ FNeq(SeriesSum(Column(d.rows, "Batt_Current_mA")), Int2F(0))
    \/ FNeq(SeriesSum(Column(d.rows, "Load_Current_mA")), Int2F(0))

has_real_charge_data(d) ==
    \/ FNeq(SeriesSum(Column(d.rows, "Batt_Charge_C")), Int2F(0))
    \/ FNeq(SeriesSum(Column(d.rows, "Load_Charge_C")), Int2F(0))

(* states that pass "if len(state_data) < 2: continue" *)
ValidatedStates(d) == {s \in UniqueStates(d.rows) : Len(StateData(d.rows, s)) >= 2}

ChargeEntries(d, state) == {ChargeEntry(sd) : sd \in sort_values(StateData(d.rows, state))}

(* df[c] raises KeyError for a column the frame does not have: the places    *)
(* where validate_charge_accumulation reads a column, in the order it reads   *)
(* them ("or" does not read Load_Charge_C when the battery sum is nonzero)    *)
validate_charge_accumulation_raises(d) ==
    \/ ~HasColumn(d, "Batt_Charge_C")
    \/ /\ ~FNeq(SeriesSum(Column(d.rows, "Batt_Charge_C")), Int2F(0))
       /\ ~HasColumn(d, "Load_Charge_C")
    \/ /\ has_real_charge_data(d)
       /\ \/ ~HasColumn(d, "TestState")
          \/ /\ ValidatedStates(d) # {}
             /\ ~HasAll(d, {"EntryTimestamp_ms", "Batt_Current_mA", "Load_Current_mA",
                            "Load_Charge_C"})

(* the set of dicts validate_charge_accumulation(df) may return *)
validate_charge_accumulation(d) ==
    IF ~has_real_charge_data(d) THEN Dicts({}, LAMBDA s : {})
    ELSE Dicts(ValidatedStates(d), LAMBDA s : ChargeEntries(d, s))

(* variant: the power difference is taken against the load current column *)
DualEntry_wrong_column(state_data) ==
    LET bv == Column(state_data, "Batt_Voltage_V")
        lv == Column(state_data, "Load_Voltage_V")
        bi == Column(state_data, "Batt_Current_mA")
        li == Column(state_data, "Load_Current_mA")
        bp == Column(state_data, "Batt_Power_mW")
        lp == Column(state_data, "Load_Current_mA")
        voltage_diff == SeriesSub(bv, lv)
        current_diff == SeriesSub(bi, li)
        power_diff   == SeriesSub(bp, lp)
    IN  [avg_voltage_diff_V  |-> SeriesMean(voltage_diff),
         avg_current_diff_mA |-> SeriesMean(current_diff),
         avg_power_diff_mW   |-> SeriesMean(power_diff),
         max_voltage_diff_V  |-> SeriesAbsMax(voltage_diff),
         max_current_diff_mA |-> SeriesAbsMax(current_diff),
         max_power_diff_mW   |-> SeriesAbsMax(power_diff),
         voltage_correlation |-> SeriesCorr(bv, lv),
         current_correlation |-> SeriesCorr(bi, li),
         power_correlation   |-> SeriesCorr(bp, lp)]

(* the loop body of analyze_dual_sensors *)
DualEntry(state_data) ==
    LET bv == Column(state_data, "Batt_Voltage_V")
        lv == Column(state_data, "Load_Voltage_V")
        bi == Column(state_data, "Batt_Current_mA")
        li == Column(state_data, "Load_Current_mA")
        bp == Column(state_data, "Batt_Power_mW")
        lp == Column(state_data, "Load_Power_mW")
        voltage_diff == SeriesSub(bv, lv)
        current_diff == SeriesSub(bi, li)
        power_diff   == SeriesSub(bp, lp)
    IN  [avg_voltage_diff_V  |-> SeriesMean(voltage_diff),
         avg_current_diff_mA |-> SeriesMean(current_diff),
         avg_power_diff_mW   |-> SeriesMean(power_diff),
         max_voltage_diff_V  |-> SeriesAbsMax(voltage_diff),
         max_current_diff_mA |-> SeriesAbsMax(current_diff),
         max_power_diff_mW   |-> SeriesAbsMax(power_diff),
         voltage_correlation |-> SeriesCorr(bv, lv),
         current_correlation |-> SeriesCorr(bi, li),
         power_correlation   |-> SeriesCorr(bp, lp)]

(* KeyError in analyze_dual_sensors: every state reads the six columns *)
analyze_dual_sensors_raises(d) ==
    \/ ~HasColumn(d, "TestState")
    \/ /\ Len(d.rows) > 0
       /\ ~HasAll(d, {"Batt_Voltage_V", "Load_Voltage_V", "Batt_Current_mA",
                      "Load_Current_mA", "Batt_Power_mW", "Load_Power_mW"})

analyze_dual_sensors(d) ==
    [s \in UniqueStates(d.rows) |-> DualEntry(StateData(d.rows, s))]

(* abs(from_energy - direct) / direct * 100, inf when direct = 0 *)
power_error_pct(avg_power_from_energy, avg_power_direct) ==
    IF FNeq(avg_power_direct, Int2F(0))
    THEN FMul(FDiv(FAbs(FSub(avg_power_from_energy, avg_power_direct)), avg_power_direct),
              Int2F(100))
    ELSE Inf(1)

(* variant: a duration of zero gives an average power of 0 *)
EnergyEntry_zero_duration_guarded(state_data) ==
    LET n == Len(state_data)
        duration_s ==
            FDiv(Int2F(state_data[n]["EntryTimestamp_ms"] - state_data[1]["EntryTimestamp_ms"]),
                 Int2F(1000))
        batt_energy_delta == FSub(state_data[n]["Batt_Energy_J"], state_data[1]["Batt_Energy_J"])
        load_energy_delta == FSub(state_data[n]["Load_Energy_J"], state_data[1]["Load_Energy_J"])
        batt_avg_power_from_energy ==
            IF IsZero(duration_s) THEN Int2F(0)
            ELSE FMul(FDiv(batt_energy_delta, duration_s), Int2F(1000))
        load_avg_power_from_energy ==
            IF IsZero(duration_s) THEN Int2F(0)
            ELSE FMul(FDiv(load_energy_delta, duration_s), Int2F(1000))
        batt_avg_power_direct == SeriesMean(Column(state_data, "Batt_Power_mW"))
        load_avg_power_direct == SeriesMean(Column(state_data, "Load_Power_mW"))
    IN  [duration_s                |-> duration_s,
         batt_energy_consumed_J    |-> batt_energy_delta,
         load_energy_consumed_J    |-> load_energy_delta,
         batt_power_from_energy_mW |-> batt_avg_power_from_energy,
         load_power_from_energy_mW |-> load_avg_power_from_energy,
         batt_power_direct_mW      |-> batt_avg_power_direct,
         load_power_direct_mW      |-> load_avg_power_direct,
         batt_power_error_pct      |-> power_error_pct(batt_avg_power_from_energy,
                                                       batt_avg_power_direct),
         load_power_error_pct      |-> power_error_pct(load_avg_power_from_energy,
                                                       load_avg_power_direct)]

(* the body of the loop of analyze_energy_consumption, after the sort *)
EnergyEntry(state_data) ==
    LET n == Len(state_data)
        duration_s ==
            FDiv(Int2F(state_data[n]["EntryTimestamp_ms"] - state_data[1]["EntryTimestamp_ms"]),
                 Int2F(1000))
        batt_energy_delta == FSub(state_data[n]["Batt_Energy_J"], state_data[1]["Batt_Energy_J"])
        load_energy_delta == FSub(state_data[n]["Load_Energy_J"], state_data[1]["Load_Energy_J"])
        batt_avg_power_from_energy == FMul(FDiv(batt_energy_delta, duration_s), Int2F(1000))
        load_avg_power_from_energy == FMul(FDiv(load_energy_delta, duration_s), Int2F(1000))
        batt_avg_power_direct == SeriesMean(Column(state_data, "Batt_Power_mW"))
        load_avg_power_direct == SeriesMean(Column(state_data, "Load_Power_mW"))
    IN  [duration_s                |-> duration_s,
         batt_energy_consumed_J    |-> batt_energy_delta,
         load_energy_consumed_J    |-> load_energy_delta,
         batt_power_from_energy_mW |-> batt_avg_power_from_energy,
         load_power_from_energy_mW |-> load_avg_power_from_energy,
         batt_power_direct_mW      |-> batt_avg_power_direct,
         load_power_direct_mW      |-> load_avg_power_direct,
         batt_power_error_pct      |-> power_error_pct(batt_avg_power_from_energy,
                                                       batt_avg_power_direct),
         load_power_error_pct      |-> power_error_pct(load_avg_power_from_energy,
                                                       load_avg_power_direct)]

EnergyEntries(d, state) == {EnergyEntry(sd) : sd \in sort_values(StateData(d.rows, state))}

(* KeyError in analyze_energy_consumption: a state with 2 rows reads them *)
analyze_energy_consumption_raises(d) ==
    \/ ~HasColumn(d, "TestState")
    \/ /\ ValidatedStates(d) # {}
       /\ ~HasAll(d, {"EntryTimestamp_ms", "Batt_Energy_J", "Load_Energy_J",
                      "Batt_Power_mW", "Load_Power_mW"})

(* the set of dicts analyze_energy_consumption(df) may return *)
analyze_energy_consumption(d) ==
    Dicts(ValidatedStates(d), LAMBDA s : EnergyEntries(d, s))

----------------------------------------------------------------------------
(* gnss_power_analysis.py: load_gnss_power_data *)

(* the 3-sensor header *)
THREE_SENSOR_COLUMNS ==
    <<"Solar_Voltage_V", "Solar_Current_mA", "Solar_Power_mW",
      "Battery_Voltage_V", "Battery_Current_mA", "Battery_Power_mW",
      "Load_Voltage_V", "Load_Current_mA", "Load_Power_mW">>

(* any(x in col for x in ['Voltage', 'Current', 'Power', 'Latitude',       *)
(* 'Longitude', 'Altitude', 'HDOP']): energy and charge columns are not in *)
numeric_columns(d) ==
    {c \in Range(d.columns) :
        c \in Range(THREE_SENSOR_COLUMNS) \cup
              {"Voltage_V", "Current_mA", "Power_mW",
               "Batt_Voltage_V", "Batt_Current_mA", "Batt_Power_mW",
               "Batt_Power_HW_mW", "Load_Power_HW_mW"}}

(* df['Timestamp_s'], df['Relative_Time_s'] from 'System_Millis_ms' *)
ConvertTimestamp(d) ==
    LET d1 == AssignColumn(d, "Timestamp_s", LAMBDA r : Num(r["System_Millis_ms"], 1000))
    IN  AssignColumn(d1, "Relative_Time_s",
                     LAMBDA r : FSub(r["Timestamp_s"], d1.rows[1]["Timestamp_s"]))

GnssCoerceNumeric(d) ==
    [columns |-> d.columns,
     rows    |-> [i \in 1..Len(d.rows) |->
                    [c \in DOMAIN d.rows[i] |->
                        IF c \in numeric_columns(d) THEN to_numeric(d.rows[i][c])
                        ELSE d.rows[i][c]]]]

(* the first name of the list that is a column of the frame, "" when none is *)
FirstColumnIn(d, names) ==
    IF \E i \in 1..Len(names) : HasColumn(d, names[i])
    THEN names[CHOOSE i \in 1..Len(names) :
                  /\ HasColumn(d, names[i])
                  /\ \A j \in 1..(i - 1) : ~HasColumn(d, names[j])]
    ELSE ""

(* df[c] = df.get(src, 0): the column src, or 0 in every row when it is absent *)
AssignGet(d, c, src) ==
    AssignColumn(d, c, LAMBDA r : IF HasColumn(d, src) THEN r[src] ELSE Int2F(0))

(* the branch "if 'Solar_Power_mW' not in df.columns" *)
ConvertOldGnssFormat(d) ==
    LET battery_power_col ==
            FirstColumnIn(d, <<"Batt_Power_mW", "Batt_Power_HW_mW", "Battery_Power_mW">>)
        b1 == IF battery_power_col # ""
              THEN AssignGet(AssignGet(AssignGet(d, "Battery_Power_mW", battery_power_col),
                                       "Battery_Voltage_V", "Batt_Voltage_V"),
                             "Battery_Current_mA", "Batt_Current_mA")
              ELSE d
        load_power_col == FirstColumnIn(b1, <<"Load_Power_mW", "Load_Power_HW_mW">>)
        l1 == IF load_power_col # ""
              THEN AssignGet(AssignGet(AssignGet(b1, "Load_Power_mW", load_power_col),
                                       "Load_Voltage_V", "Load_Voltage_V"),
                             "Load_Current_mA", "Load_Current_mA")
              ELSE AssignGet(AssignGet(AssignGet(b1, "Load_Power_mW", "Battery_Power_mW"),
                                       "Load_Voltage_V", "Battery_Voltage_V"),
                             "Load_Current_mA", "Battery_Current_mA")
        s1 == AssignColumn(l1, "Solar_Power_mW", LAMBDA r : Int2F(0))
        s2 == AssignColumn(s1, "Solar_Voltage_V", LAMBDA r : Int2F(0))
    IN  AssignColumn(s2, "Solar_Current_mA", LAMBDA r : Int2F(0))

(* the power columns the frame has, for dropna *)
power_columns(d) ==
    {c \in {"Solar_Power_mW", "Battery_Power_mW", "Load_Power_mW"} : HasColumn(d, c)}

(* .iloc[0] of an empty frame raises IndexError *)
load_gnss_power_data_raises(file) ==
    HasColumn(file, "System_Millis_ms") /\ Len(file.rows) = 0

load_gnss_power_data(file) ==
    LET timed     == IF HasColumn(file, "System_Millis_ms") THEN ConvertTimestamp(file) ELSE file
        numeric   == GnssCoerceNumeric(timed)
        converted == IF ~HasColumn(numeric, "Solar_Power_mW")
                     THEN ConvertOldGnssFormat(numeric) ELSE numeric
    IN  DropNaAny(converted, power_columns(converted))

----------------------------------------------------------------------------
(* gnss_power_analysis.py: the analyses *)

SensorStats(s) ==
    [avg_power_mW     |-> SeriesMean(s),
     max_power_mW     |-> SeriesMax(s),
     min_power_mW     |-> SeriesMin(s),
     total_energy_mWh |-> FDiv(SeriesSum(s), Int2F(3600))]

(* variant: the ratio is computed whenever the solar total is not negative *)
system_efficiency_pct_no_zero_test(solar_total, load_total) ==
    IF ~FLt(solar_total, Int2F(0))
    THEN FMul(FDiv(load_total, solar_total), Int2F(100))
    ELSE Int2F(0)

(* "if solar_total > 0: (load_total / solar_total) * 100.0 else: 0.0" *)
system_efficiency_pct(solar_total, load_total) ==
    IF FLt(Int2F(0), solar_total)
    THEN FMul(FDiv(load_total, solar_total), Int2F(100))
    ELSE Int2F(0)

(* KeyError for a power column the frame does not have *)
analyze_power_flow_raises(d) ==
    ~HasAll(d, {"Solar_Power_mW", "Battery_Power_mW", "Load_Power_mW"})

analyze_power_flow(d) ==
    LET solar   == Column(d.rows, "Solar_Power_mW")
        battery == Column(d.rows, "Battery_Power_mW")
        load    == Column(d.rows, "Load_Power_mW")
    IN  [solar   |-> SensorStats(solar),
         battery |-> SensorStats(battery),
         load    |-> SensorStats(load),
         system_efficiency_pct |-> system_efficiency_pct(SeriesSum(solar), SeriesSum(load)),
         correlations |-> [solar_vs_battery |-> SeriesCorr(solar, battery),
                           battery_vs_load  |-> SeriesCorr(battery, load),
                           solar_vs_load    |-> SeriesCorr(solar, load)]]

(* variant: the estimate is the bare difference *)
max0_unclamped(x) == x

(* Python's max(0, x): x when x > 0, else 0 (also for NaN) *)
max0(x) == IF FLt(Int2F(0), x) THEN x ELSE Int2F(0)

(* df[df['GNSS_Valid'] == value] *)
GnssRows(d, value) == SelectSeq(d.rows, LAMBDA r : r["GNSS_Valid"] = value)

(* variant: only the active partition is tested for emptiness *)
insufficient_variation_active_only(d) == Len(GnssRows(d, "True")) = 0

(* "if len(gnss_active) == 0 or len(gnss_inactive) == 0" *)
insufficient_variation(d) ==
    Len(GnssRows(d, "True")) = 0 \/ Len(GnssRows(d, "False")) = 0

GnssPartition(d, rows, active) ==
    [count                |-> Len(rows),
     avg_load_power_mW    |-> SeriesMean(Column(rows, "Load_Power_mW")),
     avg_battery_power_mW |-> SeriesMean(Column(rows, "Battery_Power_mW")),
     avg_satellites       |-> IF active /\ HasColumn(d, "Satellites_Used")
                              THEN SeriesMean(Column(rows, "Satellites_Used"))
                              ELSE Int2F(0)]

(* the empty dict {} when there is no flag column or a partition is empty *)
analyze_gnss_power_correlation(d) ==
    IF ~HasColumn(d, "GNSS_Valid") THEN <<>>
    ELSE IF insufficient_variation(d) THEN <<>>
    ELSE LET gnss_active   == GnssPartition(d, GnssRows(d, "True"), TRUE)
             gnss_inactive == GnssPartition(d, GnssRows(d, "False"), FALSE)
         IN  [gnss_active   |-> gnss_active,
              gnss_inactive |-> gnss_inactive,
              estimated_gnss_power_mW |->
                  max0(FSub(gnss_active.avg_load_power_mW, gnss_inactive.avg_load_power_mW))]

(* the values generate_summary_report writes *)
generate_summary_report(d, pa, ga) ==
    LET solar_total   == SeriesSum(Column(d.rows, "Solar_Power_mW"))
        battery_total == SeriesSum(Column(d.rows, "Battery_Power_mW"))
        load_total    == SeriesSum(Column(d.rows, "Load_Power_mW"))
    IN  [system_efficiency_pct  |-> pa.system_efficiency_pct,
         gnss_section           |-> DOMAIN ga # {},
         estimated_gnss_power_mW |-> IF DOMAIN ga # {} THEN ga.estimated_gnss_power_mW
                                     ELSE Int2F(0),
         solar_utilization_written |-> FLt(Int2F(0), solar_total),
         battery_efficiency     |-> IF FLt(Int2F(0), battery_total)
                                    THEN FMul(FDiv(load_total, battery_total), Int2F(100))
                                    ELSE Int2F(0)]

----------------------------------------------------------------------------
(* generate_enhanced_report: the validation summary table *)

validation_status(error_pct) ==
    IF FLt(error_pct, Int2F(5)) THEN "EXCELLENT"
    ELSE IF FLt(error_pct, Int2F(15)) THEN "GOOD"
    ELSE "POOR"

(* "if charge_validation:" is False for the empty dict *)
generate_enhanced_report(cv) ==
    [available |-> DOMAIN cv # {},
     status    |-> [s \in DOMAIN cv |->
                      [batt_status |-> validation_status(cv[s].batt_error_pct),
                       load_status |-> validation_status(cv[s].load_error_pct)]]]

----------------------------------------------------------------------------
(* input files *)

MaxRows == 3

States == {"STATE_A", "STATE_B"}

(* one sensor's readings of a sample *)
Ch(v, i, p, e, c) == [V |-> v, I |-> i, P |-> p, E |-> e, C |-> c]

Row15(run, state, ts, b, l) ==
    [TestRunID |-> run, TestState |-> state, EntryTimestamp_ms |-> ts,
     Batt_Voltage_V |-> b.V, Batt_Current_mA |-> b.I, Batt_Power_mW |-> b.P,
     Batt_Energy_J |-> b.E, Batt_Charge_C |-> b.C, Batt_Diagnostic |-> 0,
     Load_Voltage_V |-> l.V, Load_Current_mA |-> l.I, Load_Power_mW |-> l.P,
     Load_Energy_J |-> l.E, Load_Charge_C |-> l.C, Load_Diagnostic |-> 0]

Row6(run, state, ts, v, i, p) ==
    [TestRunID |-> run, TestState |-> state, EntryTimestamp_ms |-> ts,
     Voltage_V |-> v, Current_mA |-> i, Power_mW |-> p]

Tables(rowset) == UNION {[1..n -> rowset] : n \in 0..MaxRows}

Files(columns, rowset) == {[columns |-> columns, rows |-> t] : t \in Tables(rowset)}

(* 15-column rows that differ in current and charge accumulator *)
ChargeReadings ==
    {<<Ch(Int2F(3), Int2F(100), Int2F(300), Int2F(0), Int2F(0)),
       Ch(Int2F(3), Int2F(50), Int2F(150), Int2F(0), Int2F(0))>>,
     <<Ch(Int2F(3), Int2F(100), Int2F(300), Int2F(0), Num(1, 5)),
       Ch(Int2F(3), Int2F(100), Int2F(300), Int2F(0), Num(1, 10))>>}

ChargeRows ==
    {Row15("R1", s, ts, r[1], r[2]) : s \in States, ts \in {0, 1000}, r \in ChargeReadings}

(* the two-state run: 3 samples of 100 mA each, hardware delta 0.3 C and 0.5 C *)
ScenarioRow(state, ts, charge) ==
    Row15("R1", state, ts,
          Ch(Int2F(3), Int2F(100), Int2F(300), Int2F(0), charge),
          Ch(Int2F(3), Int2F(100), Int2F(300), Int2F(0), charge))

EndToEndScenario ==
    [columns |-> NEW_COLUMN_NAMES,
     rows |-> <<ScenarioRow("STATE_A", 0, Int2F(0)),
                ScenarioRow("STATE_A", 1000, Num(1, 10)),
                ScenarioRow("STATE_A", 2000, Num(3, 10)),
                ScenarioRow("STATE_B", 3000, Num(3, 10)),
                ScenarioRow("STATE_B", 4000, Num(1, 2)),
                ScenarioRow("STATE_B", 5000, Num(4, 5))>>]

ChargeFiles == Files(NEW_COLUMN_NAMES, ChargeRows) \cup {EndToEndScenario}

(* 15-column rows that differ in run id, state and time *)
SegReadings ==
    {<<Ch(Int2F(3), Int2F(100), Int2F(300), Int2F(1), Num(1, 10)),
       Ch(Int2F(3), Int2F(100), Int2F(300), Int2F(1), Num(1, 10))>>}

SegRows ==
    {Row15(run, s, ts, r[1], r[2]) :
        run \in {"R1", "R2"}, s \in States, ts \in {0, 1000}, r \in SegReadings}

SegFiles == Files(NEW_COLUMN_NAMES, SegRows)

(* 15-column rows that differ in power and energy accumulator *)
EnergyReadings ==
    {<<Ch(Int2F(3), Int2F(100), Int2F(100), Int2F(0), Num(1, 10)),
       Ch(Int2F(3), Int2F(100), Int2F(-100), Int2F(0), Num(1, 10))>>,
     <<Ch(Int2F(3), Int2F(100), Int2F(100), Num(1, 10), Num(1, 10)),
       Ch(Int2F(3), Int2F(100), Int2F(0), Num(1, 5), Num(1, 10))>>}

EnergyRows ==
    {Row15("R1", s, ts, r[1], r[2]) : s \in States, ts \in {0, 1000}, r \in EnergyReadings}

EnergyFiles == Files(NEW_COLUMN_NAMES, EnergyRows)

(* 15-column rows of one state at three times, whose charge and energy        *)
(* accumulators differ: the files hold them in every arrival order            *)
OrderReadings ==
    {<<Ch(Int2F(3), Int2F(100), Int2F(300), e, c), Ch(Int2F(3), Int2F(100), Int2F(300), e, c)>> :
        <<e, c>> \in {<<Num(1, 10), Num(1, 10)>>, <<Num(1, 2), Num(3, 10)>>}}

OrderRows ==
    {Row15("R1", "STATE_A", ts, r[1], r[2]) : ts \in {0, 1000, 2000}, r \in OrderReadings}

OrderFiles == Files(NEW_COLUMN_NAMES, OrderRows)

(* 15-column rows that differ in voltage, current and power of the two sensors *)
BaseCh(v, i, p) == Ch(Int2F(v), Int2F(i), Int2F(p), Int2F(1), Int2F(1))

DualReadings ==
    {<<BaseCh(3, 100, 300), BaseCh(3, 100, 300)>>,
     <<BaseCh(3, 50, 150), BaseCh(3, 50, 150)>>,
     <<BaseCh(4, 200, 800), BaseCh(4, 200, 800)>>,
     <<BaseCh(3, 100, 300), BaseCh(3, 90, 270)>>}

DualRows == {Row15("R1", s, 0, r[1], r[2]) : s \in States, r \in DualReadings}

DualFiles == Files(NEW_COLUMN_NAMES, DualRows)

(* old 6-column rows; a power cell may hold text that is no number *)
LegacyReadings ==
    {<<Int2F(3), Int2F(100), Int2F(300)>>,
     <<Int2F(4), Int2F(200), Int2F(800)>>,
     <<Int2F(3), Int2F(100), BadText>>}

LegacyRows ==
    {Row6("R1", s, ts, r[1], r[2], r[3]) : s \in States, ts \in {0, 1000}, r \in LegacyReadings}

LegacyFiles == Files(OLD_COLUMN_NAMES, LegacyRows)

(* 15-column rows in which a cell may hold text that is no number: all cells *)
(* parse; battery voltage, current and energy do not; the charges do not;    *)
(* load voltage and power do not; battery power does not                     *)
TextReadings ==
    {<<0, Ch(Int2F(3), Int2F(100), Int2F(300), Int2F(0), Num(1, 10)),
          Ch(Int2F(3), Int2F(100), Int2F(300), Int2F(0), Num(1, 10))>>,
     <<1000, Ch(Int2F(3), Int2F(100), Int2F(300), Int2F(0), Num(1, 10)),
             Ch(Int2F(3), Int2F(100), Int2F(300), Int2F(0), Num(1, 10))>>,
     <<0, Ch(BadText, BadText, Int2F(300), BadText, Num(1, 5)),
          Ch(Int2F(3), Int2F(100), Int2F(300), Int2F(0), Num(1, 5))>>,
     <<1000, Ch(BadText, BadText, Int2F(300), BadText, Num(1, 5)),
             Ch(Int2F(3), Int2F(100), Int2F(300), Int2F(0), Num(1, 5))>>,
     <<1000, Ch(Int2F(3), Int2F(100), Int2F(300), Int2F(0), BadText),
             Ch(Int2F(3), Int2F(100), Int2F(300), Int2F(0), BadText)>>,
     <<0, Ch(Int2F(3), Int2F(100), Int2F(300), Int2F(0), Num(1, 10)),
          Ch(BadText, Int2F(100), BadText, Int2F(0), Num(1, 10))>>,
     <<0, Ch(Int2F(3), Int2F(100), BadText, Int2F(0), Num(1, 10)),
          Ch(Int2F(3), Int2F(100), Int2F(300), Int2F(0), Num(1, 10))>>}

TextRows == {Row15("R1", "STATE_A", r[1], r[2], r[3]) : r \in TextReadings}

(* old 6-column rows in which a cell may hold text *)
LegacyTextRows ==
    {Row6("R1", "STATE_A", 0, r[1], r[2], r[3]) :
        r \in {<<Int2F(3), Int2F(100), Int2F(300)>>,
               <<BadText, BadText, Int2F(300)>>,
               <<Int2F(3), Int2F(100), BadText>>}}

(* files whose header has no power column at all, and files whose only power *)
(* column is the old Power_mW in a header that is not the 6-column one       *)
NO_POWER_COLUMNS == <<"TestRunID", "TestState", "EntryTimestamp_ms">>

NoPowerRows ==
    {[TestRunID |-> "R1", TestState |-> st, EntryTimestamp_ms |-> 0] : st \in States}

FALLBACK_COLUMNS == <<"TestRunID", "TestState", "EntryTimestamp_ms", "Power_mW">>

FallbackRows ==
    {[TestRunID |-> "R1", TestState |-> "STATE_A", EntryTimestamp_ms |-> 0, Power_mW |-> p] :
        p \in {Int2F(300), BadText}}

LoaderFiles ==
    Files(NEW_COLUMN_NAMES, TextRows) \cup Files(OLD_COLUMN_NAMES, LegacyTextRows)
        \cup Files(NO_POWER_COLUMNS, NoPowerRows) \cup Files(FALLBACK_COLUMNS, FallbackRows)

(* files of the GNSS power demo: 3-sensor rows with the GNSS flag, that     *)
(* differ in solar power, load power and flag                              *)
GNSS_COLUMNS == THREE_SENSOR_COLUMNS \o <<"GNSS_Valid", "Satellites_Used">>

GnssRow(solar_p, load_p, flag) ==
    [Solar_Voltage_V |-> Int2F(5), Solar_Current_mA |-> Int2F(20), Solar_Power_mW |-> solar_p,
     Battery_Voltage_V |-> Int2F(4), Battery_Current_mA |-> Int2F(25),
     Battery_Power_mW |-> Int2F(100),
     Load_Voltage_V |-> Int2F(3), Load_Current_mA |-> Int2F(30), Load_Power_mW |-> load_p,
     GNSS_Valid |-> flag, Satellites_Used |-> Int2F(7)]

GnssSampleRows ==
    {GnssRow(Int2F(sp), Int2F(lp), flag) :
        sp \in {0, 100, -100}, lp \in {50, 200}, flag \in {"True", "False"}}

(* the row restricted to the given columns *)
Project(row, columns) == [c \in Range(columns) |-> row[c]]

(* the same readings in a file without the flag column *)
NoFlagRows == {Project(r, THREE_SENSOR_COLUMNS) : r \in GnssSampleRows}

(* files of the older layout: battery sensor only; the flag may be missing *)
OLD_GNSS_COLUMNS == <<"Batt_Voltage_V", "Batt_Current_mA", "Batt_Power_mW", "GNSS_Valid">>

OldGnssRows ==
    {[Batt_Voltage_V |-> Int2F(4), Batt_Current_mA |-> Int2F(25), Batt_Power_mW |-> p,
      GNSS_Valid |-> flag] :
        p \in {Int2F(100), BadText}, flag \in {"True", "False", "nan"}}

(* a file with the millisecond clock, empty or not, and a file with a load   *)
(* sensor only                                                               *)
TimedFile(n) ==
    [columns |-> <<"System_Millis_ms">> \o THREE_SENSOR_COLUMNS,
     rows |-> [i \in 1..n |->
                 [c \in {"System_Millis_ms"} \cup Range(THREE_SENSOR_COLUMNS) |->
                     IF c = "System_Millis_ms" THEN 1000 * i
                     ELSE Project(GnssRow(Int2F(100), Int2F(50), "True"),
                                  THREE_SENSOR_COLUMNS)[c]]]]

LoadOnlyFile ==
    [columns |-> <<"Load_Power_mW">>, rows |-> <<[Load_Power_mW |-> Int2F(50)]>>]

(* a battery-only file that already uses the Battery_* names *)
BatteryNamedFile ==
    [columns |-> <<"Battery_Voltage_V", "Battery_Current_mA", "Battery_Power_mW">>,
     rows |-> <<[Battery_Voltage_V |-> Int2F(4), Battery_Current_mA |-> Int2F(25),
                 Battery_Power_mW |-> Int2F(100)]>>]

GnssFiles ==
    Files(GNSS_COLUMNS, GnssSampleRows) \cup Files(THREE_SENSOR_COLUMNS, NoFlagRows)
        \cup Files(OLD_GNSS_COLUMNS, OldGnssRows)
        \cup {TimedFile(0), TimedFile(2), LoadOnlyFile, BatteryNamedFile}

----------------------------------------------------------------------------
(* main() *)

EmptyFrame == [columns |-> <<>>, rows |-> <<>>]

EmptyDict == [s \in {} |-> NaN]

NoReport == [available |-> FALSE, status |-> EmptyDict]

InitWith(files) ==
    /\ csv \in files
    /\ pc = "load"
    /\ df = EmptyFrame
    /\ charge_validation = EmptyDict
    /\ sensor_comparison = EmptyDict
    /\ energy_analysis = EmptyDict
    /\ report = NoReport
    /\ power_analysis = EmptyDict
    /\ gnss_analysis = EmptyDict

(* an action of main(): a KeyError raised by the function it calls is not     *)
(* caught and ends the program (pc = "error")                                 *)

(* df = clean_and_load_data(csv_file); "if df is not None and len(df) > 0" *)
Load ==
    /\ pc = "load"
    /\ df' = clean_and_load_data(csv)
    /\ pc' = IF Len(df'.rows) > 0 THEN "charge" ELSE "exit"
    /\ UNCHANGED <<power_analysis, gnss_analysis, csv, charge_validation, sensor_comparison, energy_analysis, report>>

ValidateCharge ==
    /\ pc = "charge"
    /\ IF validate_charge_accumulation_raises(df)
       THEN pc' = "error" /\ charge_validation' = charge_validation
       ELSE pc' = "dual" /\ charge_validation' \in validate_charge_accumulation(df)
    /\ UNCHANGED <<power_analysis, gnss_analysis, csv, df, sensor_comparison, energy_analysis, report>>

AnalyzeDual ==
    /\ pc = "dual"
    /\ IF analyze_dual_sensors_raises(df)
       THEN pc' = "error" /\ sensor_comparison' = sensor_comparison
       ELSE pc' = "energy" /\ sensor_comparison' = analyze_dual_sensors(df)
    /\ UNCHANGED <<power_analysis, gnss_analysis, csv, df, charge_validation, energy_analysis, report>>

AnalyzeEnergy ==
    /\ pc = "energy"
    /\ IF analyze_energy_consumption_raises(df)
       THEN pc' = "error" /\ energy_analysis' = energy_analysis
       ELSE pc' = "report" /\ energy_analysis' \in analyze_energy_consumption(df)
    /\ UNCHANGED <<power_analysis, gnss_analysis, csv, df, charge_validation, sensor_comparison, report>>

GenerateReport ==
    /\ pc = "report"
    /\ report' = generate_enhanced_report(charge_validation)
    /\ pc' = "done"
    /\ UNCHANGED <<power_analysis, gnss_analysis, csv, df, charge_validation, sensor_comparison, energy_analysis>>

Next == Load \/ ValidateCharge \/ AnalyzeDual \/ AnalyzeEnergy \/ GenerateReport

Init == InitWith(ChargeFiles)

Spec == Init /\ [][Next]_vars

InitSeg == InitWith(SegFiles)

SpecSeg == InitSeg /\ [][Next]_vars

InitEnergy == InitWith(EnergyFiles)

SpecEnergy == InitEnergy /\ [][Next]_vars

InitDual == InitWith(DualFiles)

SpecDual == InitDual /\ [][Next]_vars

InitLegacy == InitWith(LegacyFiles)

SpecLegacy == InitLegacy /\ [][Next]_vars

InitLoader == InitWith(LoaderFiles)

SpecLoader == InitLoader /\ [][Next]_vars

InitOrder == InitWith(OrderFiles)

SpecOrder == InitOrder /\ [][Next]_vars

----------------------------------------------------------------------------
(* main() of gnss_power_analysis.py: any exception is caught, the program    *)
(* prints the error and exits (pc = "gnss_exit")                             *)

NoSummary ==
    [system_efficiency_pct |-> NaN, gnss_section |-> FALSE, estimated_gnss_power_mW |-> NaN,
     solar_utilization_written |-> FALSE, battery_efficiency |-> NaN]

GnssLoad ==
    /\ pc = "gnss_load"
    /\ IF load_gnss_power_data_raises(csv)
       THEN pc' = "gnss_exit" /\ df' = df
       ELSE pc' = "power_flow" /\ df' = load_gnss_power_data(csv)
    /\ UNCHANGED <<csv, charge_validation, sensor_comparison, energy_analysis, report,
                   power_analysis, gnss_analysis>>

AnalyzePowerFlow ==
    /\ pc = "power_flow"
    /\ IF analyze_power_flow_raises(df)
       THEN pc' = "gnss_exit" /\ power_analysis' = power_analysis
       ELSE pc' = "gnss_correlation" /\ power_analysis' = analyze_power_flow(df)
    /\ UNCHANGED <<csv, df, charge_validation, sensor_comparison, energy_analysis, report,
                   gnss_analysis>>

AnalyzeGnssPowerCorrelation ==
    /\ pc = "gnss_correlation"
    /\ gnss_analysis' = analyze_gnss_power_correlation(df)
    /\ pc' = "outputs"
    /\ UNCHANGED <<csv, df, charge_validation, sensor_comparison, energy_analysis, report,
                   power_analysis>>

GenerateSummaryReport ==
    /\ pc = "outputs"
    /\ report' = generate_summary_report(df, power_analysis, gnss_analysis)
    /\ pc' = "gnss_done"
    /\ UNCHANGED <<csv, df, charge_validation, sensor_comparison, energy_analysis,
                   power_analysis, gnss_analysis>>

NextGnss == GnssLoad \/ AnalyzePowerFlow \/ AnalyzeGnssPowerCorrelation \/ GenerateSummaryReport

InitGnss ==
    /\ csv \in GnssFiles
    /\ pc = "gnss_load"
    /\ df = EmptyFrame
    /\ charge_validation = EmptyDict
    /\ sensor_comparison = EmptyDict
    /\ energy_analysis = EmptyDict
    /\ report = NoSummary
    /\ power_analysis = EmptyDict
    /\ gnss_analysis = EmptyDict

SpecGnss == InitGnss /\ [][NextGnss]_vars

----------------------------------------------------------------------------
(* Properties *)

Tiers == {"EXCELLENT", "GOOD", "POOR"}

ChargeDone == pc \in {"dual", "energy", "report", "done"}

(* rows i, j of a state's data that a sort by timestamp can put first and last *)
FirstLast(sd) ==
    {ij \in (1..Len(sd)) \X (1..Len(sd)) :
        /\ ij[1] # ij[2]
        /\ \A m \in 1..Len(sd) :
              /\ sd[ij[1]]["EntryTimestamp_ms"] <= sd[m]["EntryTimestamp_ms"]
              /\ sd[m]["EntryTimestamp_ms"] <= sd[ij[2]]["EntryTimestamp_ms"]}

RECURSIVE TotalOf(_, _, _)
(* the cells of column col of rows 1..n added up, last row first *)
TotalOf(sd, col, n) == IF n = 0 THEN Int2F(0) ELSE FAdd(TotalOf(sd, col, n - 1), sd[n][col])

(* err is |manual - reference| / |reference| * 100, or inf when reference = 0 *)
IsErrorPct(err, value, reference) ==
    IF IsZero(reference) THEN err = Inf(1)
    ELSE FMul(err, FAbs(reference)) = FMul(FAbs(FSub(value, reference)), Int2F(100))

(* C1: a charge result whose hardware delta is exactly zero (error reported   *)
(* as inf) is shown by the report in a tier of its own, never as POOR, GOOD   *)
(* or EXCELLENT.                                                              *)
C1_UndefinedOwnTier ==
    pc = "done" =>
        \A s \in DOMAIN charge_validation :
            /\ IsZero(charge_validation[s].batt_hardware_charge_C)
                  => report.status[s].batt_status \notin Tiers
            /\ IsZero(charge_validation[s].load_hardware_charge_C)
                  => report.status[s].load_status \notin Tiers

SameKey(rows, i, j) ==
    /\ rows[i]["TestRunID"] = rows[j]["TestRunID"]
    /\ rows[i]["TestState"] = rows[j]["TestState"]

Segments(rows) ==
    {seg \in (1..Len(rows)) \X (1..Len(rows)) :
        /\ seg[1] <= seg[2]
        /\ \A m \in seg[1]..seg[2] : SameKey(rows, seg[1], m)
        /\ seg[1] = 1 \/ ~SameKey(rows, seg[1] - 1, seg[1])
        /\ seg[2] = Len(rows) \/ ~SameKey(rows, seg[2], seg[2] + 1)}

SegmentsOfState(rows, s) ==
    {SubSeq(rows, seg[1], seg[2]) : seg \in {g \in Segments(rows) : rows[g[1]]["TestState"] = s}}

OneRun(rows) == \A i, j \in 1..Len(rows) : rows[i]["TestRunID"] = rows[j]["TestRunID"]

(* C3: within one run, every result of a validator is computed over the rows *)
(* of one segment (a maximal run of consecutive records of the same state),   *)
(* never over the union of two disjoint windows of that state.                *)
C3_ResultPerSegment ==
    (pc = "done" /\ OneRun(df.rows)) =>
        /\ \A s \in DOMAIN charge_validation :
              \E seg \in SegmentsOfState(df.rows, s) :
                  charge_validation[s] \in {ChargeEntry(sd) : sd \in sort_values(seg)}
        /\ \A s \in DOMAIN sensor_comparison :
              \E seg \in SegmentsOfState(df.rows, s) : sensor_comparison[s] = DualEntry(seg)
        /\ \A s \in DOMAIN energy_analysis :
              \E seg \in SegmentsOfState(df.rows, s) :
                  energy_analysis[s] \in {EnergyEntry(sd) : sd \in sort_values(seg)}

RunStateData(rows, run, s) ==
    SelectSeq(rows, LAMBDA r : r["TestRunID"] = run /\ r["TestState"] = s)

RunIds(rows) == {rows[i]["TestRunID"] : i \in 1..Len(rows)}

(* C4: every charge and energy result is computed from the records of one     *)
(* run_id only; records of two runs with the same state label are never       *)
(* combined into one result.                                                  *)
C4_ResultPerRun ==
    pc = "done" =>
        /\ \A s \in DOMAIN charge_validation :
              \E run \in RunIds(df.rows) :
                  charge_validation[s] \in
                      {ChargeEntry(sd) : sd \in sort_values(RunStateData(df.rows, run, s))}
        /\ \A s \in DOMAIN energy_analysis :
              \E run \in RunIds(df.rows) :
                  energy_analysis[s] \in
                      {EnergyEntry(sd) : sd \in sort_values(RunStateData(df.rows, run, s))}

IsLegacy == Len(csv.columns) = 6

(* C5: for a file in the old 6-column layout (charge columns filled with the  *)
(* placeholder 0) validate_charge_accumulation returns no result for any      *)
(* state, whatever the currents and the number of samples.                    *)
C5_PlaceholderChargeSkipped ==
    (ChargeDone /\ IsLegacy) => DOMAIN charge_validation = {}

(* an old-format file with two samples of one state and nonzero current *)
C5_Witness ==
    /\ pc = "done"
    /\ IsLegacy
    /\ \E s \in States :
          /\ Len(StateData(df.rows, s)) >= 2
          /\ \E i \in 1..Len(df.rows) : ~IsZero(df.rows[i]["Batt_Current_mA"])
    /\ \A i \in 1..Len(df.rows) :
          IsZero(df.rows[i]["Batt_Charge_C"]) /\ IsZero(df.rows[i]["Load_Charge_C"])
    /\ DOMAIN charge_validation = {}
    /\ ~report.available

(* C6: for a file in the old 6-column layout (energy columns filled with the  *)
(* placeholder 0) analyze_energy_consumption gives no defined error metric    *)
(* for any state.                                                             *)
C6_PlaceholderEnergySuppressed ==
    (pc = "done" /\ IsLegacy) =>
        \A s \in DOMAIN energy_analysis :
            /\ ~IsFinite(energy_analysis[s].batt_power_error_pct)
            /\ ~IsFinite(energy_analysis[s].load_power_error_pct)

(* C7: for a file in the old 6-column layout (load readings duplicated from   *)
(* the battery readings) analyze_dual_sensors reports nothing: no entry with  *)
(* a zero difference or a correlation computed from the duplicate.            *)
C7_DuplicateChannelSuppressed ==
    (pc = "done" /\ IsLegacy) => DOMAIN sensor_comparison = {}

WithoutState(d, s) ==
    [columns |-> d.columns, rows |-> SelectSeq(d.rows, LAMBDA r : r["TestState"] # s)]

(* C8: a state with fewer than 2 records has no entry in the charge and the   *)
(* energy results, and the results of the other states are those the checks   *)
(* give when the records of that state are absent.                            *)
C8_ShortSegmentSkipped ==
    pc = "done" =>
        \A s \in UniqueStates(df.rows) :
            Len(StateData(df.rows, s)) < 2 =>
                /\ s \notin DOMAIN charge_validation
                /\ s \notin DOMAIN energy_analysis
                /\ charge_validation \in validate_charge_accumulation(WithoutState(df, s))
                /\ energy_analysis \in analyze_energy_consumption(WithoutState(df, s))

(* C9: for every state with at least 2 records the energy check has           *)
(* duration_s = (last - first timestamp)/1000, power from energy = energy     *)
(* delta / duration_s x 1000, and error% = |from energy - mean power| /       *)
(* |mean power| x 100, never negative, inf when the mean power is 0 (the      *)
(* values are compared where duration_s is not 0).                            *)
C9_EnergyFormula ==
    pc = "done" =>
        \A s \in DOMAIN energy_analysis :
            LET e  == energy_analysis[s]
                sd == StateData(df.rows, s)
            IN  /\ \E ij \in FirstLast(sd) :
                      FMul(e.duration_s, Int2F(1000))
                          = Int2F(sd[ij[2]]["EntryTimestamp_ms"] - sd[ij[1]]["EntryTimestamp_ms"])
                /\ ~IsZero(e.duration_s) =>
                      /\ FMul(e.batt_power_from_energy_mW, e.duration_s)
                            = FMul(e.batt_energy_consumed_J, Int2F(1000))
                      /\ FMul(e.load_power_from_energy_mW, e.duration_s)
                            = FMul(e.load_energy_consumed_J, Int2F(1000))
                      /\ IsErrorPct(e.batt_power_error_pct, e.batt_power_from_energy_mW,
                                    e.batt_power_direct_mW)
                      /\ IsErrorPct(e.load_power_error_pct, e.load_power_from_energy_mW,
                                    e.load_power_direct_mW)
                      /\ ~FLt(e.batt_power_error_pct, Int2F(0))
                      /\ ~FLt(e.load_power_error_pct, Int2F(0))

IdenticalChannels(sd) ==
    \A i \in 1..Len(sd) :
        /\ sd[i]["Batt_Voltage_V"] = sd[i]["Load_Voltage_V"]
        /\ sd[i]["Batt_Current_mA"] = sd[i]["Load_Current_mA"]
        /\ sd[i]["Batt_Power_mW"] = sd[i]["Load_Power_mW"]

Constant(sd, col) == \A i, j \in 1..Len(sd) : sd[i][col] = sd[j][col]

ZeroDifferences(e) ==
    /\ e.avg_voltage_diff_V = Int2F(0) /\ e.max_voltage_diff_V = Int2F(0)
    /\ e.avg_current_diff_mA = Int2F(0) /\ e.max_current_diff_mA = Int2F(0)
    /\ e.avg_power_diff_mW = Int2F(0) /\ e.max_power_diff_mW = Int2F(0)

CorrOneOrUndefined(r, sd, col) ==
    IF Len(sd) >= 2 /\ ~Constant(sd, col) THEN CorrIsOne(r) ELSE CorrIsNaN(r)

----------------------------------------------------------------------------
(* Properties of the loader *)

Loaded == pc # "load"

(* the state main() is in when clean_and_load_data has returned; df and csv  *)
(* do not change afterwards                                                  *)
JustLoaded == pc \in {"charge", "exit"}

IsDualSensor == csv.columns = NEW_COLUMN_NAMES

(* no column of the file is a power reading of any channel *)
Unmappable ==
    \A c \in Range(csv.columns) :
        c \notin {"Power_mW", "Batt_Power_mW", "Load_Power_mW", "Battery_Power_mW"}

(* C15: for a file none of whose columns is a power reading the load fails    *)
(* as a whole: main gets no records and calls no validator or analyzer.       *)
C15_UnmappableLoadFails ==
    Unmappable => (pc \in {"load", "exit"} /\ Len(df.rows) = 0)

Parses(cell) == cell.k # "text"

BothPowersParse(r) == Parses(r["Batt_Power_mW"]) /\ Parses(r["Load_Power_mW"])

(* the fields of a 15-column row that hold measurements *)
MeasuredFields ==
    {"Batt_Voltage_V", "Batt_Current_mA", "Batt_Power_mW", "Batt_Energy_J", "Batt_Charge_C",
     "Load_Voltage_V", "Load_Current_mA", "Load_Power_mW", "Load_Energy_J", "Load_Charge_C"}

(* the row with every measurement that does not parse replaced by missing *)
WithMissing(r) ==
    [c \in DOMAIN r |-> IF c \in MeasuredFields /\ ~Parses(r[c]) THEN NaN ELSE r[c]]

(* C16: of a 15-column file the loader keeps exactly the rows whose battery   *)
(* power and load power both parse, in their original order; every record    *)
(* that survives has a power value for both channels.                         *)
C16_DroppedIffPowerUnparseable ==
    (Loaded /\ IsDualSensor) =>
        /\ \A i \in 1..Len(df.rows) :
              ~IsNaN(df.rows[i]["Batt_Power_mW"]) /\ ~IsNaN(df.rows[i]["Load_Power_mW"])
        /\ LET kept == SelectSeq(csv.rows, BothPowersParse)
           IN  df.rows = [i \in 1..Len(kept) |-> WithMissing(kept[i])]

MissingIfUnparsed(cell) == IF Parses(cell) THEN cell ELSE NaN

NeededValueMissing(sd, current_col, charge_col) ==
    \/ \E i \in 1..Len(sd) : IsNaN(sd[i][current_col])
    \/ \A ij \in FirstLast(sd) : IsNaN(sd[ij[1]][charge_col]) \/ IsNaN(sd[ij[2]][charge_col])

(* C18: when a current sample of a state is missing, or its first or last     *)
(* charge reading is missing, the charge check reports no number for that     *)
(* channel (the error is undefined) and the report shows it in a tier of its  *)
(* own, not as POOR, GOOD or EXCELLENT.                                       *)
C18_MissingReportsUndefined ==
    pc = "done" =>
        \A s \in DOMAIN charge_validation :
            LET sd == StateData(df.rows, s)
                e  == charge_validation[s]
            IN  /\ NeededValueMissing(sd, "Batt_Current_mA", "Batt_Charge_C") =>
                      /\ ~IsFinite(e.batt_error_pct)
                      /\ report.status[s].batt_status \notin Tiers
                /\ NeededValueMissing(sd, "Load_Current_mA", "Load_Charge_C") =>
                      /\ ~IsFinite(e.load_error_pct)
                      /\ report.status[s].load_status \notin Tiers

(* a 15-column row with the readings of the 6-column row r on the battery    *)
(* sensor, accumulators e and c, and the load sensor reading load            *)
DualSensorRow(r, e, c, load) ==
    Row15(r["TestRunID"], r["TestState"], r["EntryTimestamp_ms"],
          Ch(r["Voltage_V"], r["Current_mA"], r["Power_mW"], e, c), load)

(* the 15-column file describing the readings of the 6-column file csv, with *)
(* accumulators and a load sensor of its own                                 *)
SameReadingsFile ==
    [columns |-> NEW_COLUMN_NAMES,
     rows |-> [i \in 1..Len(csv.rows) |->
                 DualSensorRow(csv.rows[i], Int2F(1), Num(1, 4),
                               Ch(Int2F(3), Int2F(90), Int2F(270), Int2F(2), Num(1, 2)))]]

IdentityFields == {"TestRunID", "TestState", "EntryTimestamp_ms"}

(* C19: from a 6-column file the loader keeps the rows whose power parses, in *)
(* order, each with its run, state and timestamp; battery voltage, current    *)
(* and power are the input's Voltage_V, Current_mA and Power_mW; the load     *)
(* fields equal the battery fields of the row; energy and charge of both      *)
(* sensors are 0; and the battery fields equal those loaded from the          *)
(* 15-column file that describes the same readings.                           *)
C19_LegacyNormalization ==
    (JustLoaded /\ IsLegacy) =>
        LET kept == SelectSeq(csv.rows, LAMBDA r : Parses(r["Power_mW"]))
            dual == clean_and_load_data(SameReadingsFile).rows
        IN  /\ Len(df.rows) = Len(kept)
            /\ Len(dual) = Len(kept)
            /\ \A i \in 1..Len(kept) :
                  LET out == df.rows[i]
                  IN  /\ \A c \in IdentityFields : out[c] = kept[i][c]
                      /\ out["Batt_Voltage_V"] = MissingIfUnparsed(kept[i]["Voltage_V"])
                      /\ out["Batt_Current_mA"] = MissingIfUnparsed(kept[i]["Current_mA"])
                      /\ out["Batt_Power_mW"] = kept[i]["Power_mW"]
                      /\ out["Load_Voltage_V"] = out["Batt_Voltage_V"]
                      /\ out["Load_Current_mA"] = out["Batt_Current_mA"]
                      /\ out["Load_Power_mW"] = out["Batt_Power_mW"]
                      /\ \A c \in {"Batt_Energy_J", "Batt_Charge_C", "Load_Energy_J",
                                    "Load_Charge_C"} : out[c] = Int2F(0)
                      /\ \A c \in IdentityFields \cup
                                   {"Batt_Voltage_V", "Batt_Current_mA", "Batt_Power_mW"} :
                            dual[i][c] = out[c]

(* a 6-column file of three rows, the middle one with unparseable power, was *)
(* loaded as two rows with different readings                                *)
C19_Witness ==
    /\ JustLoaded
    /\ IsLegacy
    /\ Len(csv.rows) = 3
    /\ ~Parses(csv.rows[2]["Power_mW"])
    /\ Len(df.rows) = 2
    /\ df.rows[1]["Batt_Voltage_V"] = Int2F(4)
    /\ df.rows[1]["Load_Current_mA"] = Int2F(200)
    /\ df.rows[2]["Load_Power_mW"] = Int2F(300)
    /\ df.rows[2]["Load_Charge_C"] = Int2F(0)

(* the 15-column file in which both sensors measured the readings of the     *)
(* 6-column file csv and every accumulator was measured as 0                 *)
MeasuredZerosFile ==
    [columns |-> NEW_COLUMN_NAMES,
     rows |-> [i \in 1..Len(csv.rows) |->
                 DualSensorRow(csv.rows[i], Int2F(0), Int2F(0),
                               Ch(csv.rows[i]["Voltage_V"], csv.rows[i]["Current_mA"],
                                  csv.rows[i]["Power_mW"], Int2F(0), Int2F(0)))]]

(* C20: the loaded records tell fabricated values from measured ones: what    *)
(* is loaded from a 6-column file (accumulators filled with the placeholder   *)
(* 0, load sensor duplicated from the battery sensor) differs, by its flags,  *)
(* from what is loaded from a 15-column file in which those same values were  *)
(* measured.                                                                  *)
C20_FabricatedIsTagged ==
    (Loaded /\ IsLegacy /\ Len(df.rows) > 0) =>
        /\ df # clean_and_load_data(MeasuredZerosFile)
        /\ HasAll(df, {"is_placeholder", "is_synthesized"})

----------------------------------------------------------------------------
(* Properties of gnss_power_analysis.py *)

PowerFlowDone == pc \in {"gnss_correlation", "outputs", "gnss_done"}

GnssCorrelationDone == pc \in {"outputs", "gnss_done"}

(* the plain sum of a column of the loaded frame *)
ColumnTotal(col) == TotalOf(df.rows, col, Len(df.rows))

(* C11: whenever the solar power of the loaded run adds up to exactly 0,      *)
(* analyze_power_flow reports system_efficiency_pct = 0 (a number: not NaN,   *)
(* not inf), whatever the load total, and the summary report writes that 0.   *)
C11_ZeroSourceEfficiencyZero ==
    /\ (PowerFlowDone /\ IsZero(ColumnTotal("Solar_Power_mW"))) =>
          power_analysis.system_efficiency_pct = Int2F(0)
    /\ (pc = "gnss_done" /\ IsZero(ColumnTotal("Solar_Power_mW"))) =>
          report.system_efficiency_pct = Int2F(0)

(* solar readings of 100 and -100 mW cancel to a zero total, the load total   *)
(* is not zero, and the efficiency was reported as 0                          *)
C11_Witness ==
    /\ pc = "gnss_done"
    /\ IsZero(ColumnTotal("Solar_Power_mW"))
    /\ \E i \in 1..Len(df.rows) : ~IsZero(df.rows[i]["Solar_Power_mW"])
    /\ ~IsZero(ColumnTotal("Load_Power_mW"))
    /\ power_analysis.system_efficiency_pct = Int2F(0)

(* C12: for every nonzero solar total, a negative one included,               *)
(* system_efficiency_pct is (load total)/(solar total) x 100; it is 0 by      *)
(* policy only when the solar total is exactly zero.                          *)
C12_NonzeroSourceRatio ==
    (PowerFlowDone /\ ~IsZero(ColumnTotal("Solar_Power_mW"))) =>
        FMul(power_analysis.system_efficiency_pct, ColumnTotal("Solar_Power_mW"))
            = FMul(ColumnTotal("Load_Power_mW"), Int2F(100))

ActiveRows == SelectSeq(df.rows, LAMBDA r : r["GNSS_Valid"] = "True")

InactiveRows == SelectSeq(df.rows, LAMBDA r : r["GNSS_Valid"] = "False")

BothPartitions ==
    HasColumn(df, "GNSS_Valid") /\ Len(ActiveRows) > 0 /\ Len(InactiveRows) > 0

(* mean load power while active minus mean load power while inactive *)
LoadPowerDifference ==
    FSub(FDiv(TotalOf(ActiveRows, "Load_Power_mW", Len(ActiveRows)), Int2F(Len(ActiveRows))),
         FDiv(TotalOf(InactiveRows, "Load_Power_mW", Len(InactiveRows)),
              Int2F(Len(InactiveRows))))

(* C13: whenever some rows have the flag set and some have it clear, the      *)
(* estimate is the difference of the mean load power of the two partitions    *)
(* when that is positive and 0 otherwise; it is never negative; the summary   *)
(* report writes the same value.                                              *)
C13_EstimateClamped ==
    /\ (GnssCorrelationDone /\ BothPartitions) =>
          /\ "estimated_gnss_power_mW" \in DOMAIN gnss_analysis
          /\ gnss_analysis.estimated_gnss_power_mW
                = (IF FLt(LoadPowerDifference, Int2F(0)) THEN Int2F(0) ELSE LoadPowerDifference)
          /\ ~FLt(gnss_analysis.estimated_gnss_power_mW, Int2F(0))
    /\ (pc = "gnss_done" /\ BothPartitions) =>
          report.estimated_gnss_power_mW = gnss_analysis.estimated_gnss_power_mW

(* the load draws less while the flag is set, and the estimate is 0 *)
C13_Witness ==
    /\ pc = "gnss_done"
    /\ BothPartitions
    /\ FLt(LoadPowerDifference, Int2F(0))
    /\ gnss_analysis.estimated_gnss_power_mW = Int2F(0)

(* C14: when the frame has no flag column, or no row with the flag set, or    *)
(* no row with the flag clear, analyze_gnss_power_correlation returns the     *)
(* empty result (no estimate); the run is not ended by it: the power-flow     *)
(* analysis is there and the summary report is written without the GNSS       *)
(* section.                                                                   *)
C14_EstimateSkipped ==
    /\ (GnssCorrelationDone /\ ~BothPartitions) =>
          /\ DOMAIN gnss_analysis = {}
          /\ "system_efficiency_pct" \in DOMAIN power_analysis
    /\ (pc = "gnss_done" /\ ~BothPartitions) => ~report.gnss_section
    /\ pc = "gnss_exit" => DOMAIN power_analysis = {}

(* every row has the flag set, none has it clear, and the report is written *)
C14_Witness ==
    /\ pc = "gnss_done"
    /\ HasColumn(df, "GNSS_Valid")
    /\ Len(ActiveRows) >= 2
    /\ Len(InactiveRows) = 0
    /\ DOMAIN gnss_analysis = {}
    /\ "system_efficiency_pct" \in DOMAIN power_analysis
    /\ ~report.gnss_section

(* the GNSS loader has returned a frame *)
GnssLoaded == pc \in {"power_flow", "gnss_correlation", "outputs", "gnss_done"}

(* the names under which a file can supply a column of the 3-sensor layout *)
AcceptedNames(c) ==
    CASE c = "Battery_Power_mW"   -> {"Battery_Power_mW", "Batt_Power_mW", "Batt_Power_HW_mW"}
      [] c = "Battery_Voltage_V"  -> {"Battery_Voltage_V", "Batt_Voltage_V"}
      [] c = "Battery_Current_mA" -> {"Battery_Current_mA", "Batt_Current_mA"}
      [] c = "Load_Power_mW"      -> {"Load_Power_mW", "Load_Power_HW_mW"}
      [] OTHER                    -> {c}

(* the file has the column under none of its names; a load column of a file   *)
(* without a load sensor is the documented copy of the battery channel and    *)
(* is not counted                                                             *)
AbsentFromSchema(c) ==
    /\ \A n \in AcceptedNames(c) : ~HasColumn(csv, n)
    /\ c \in {"Load_Voltage_V", "Load_Current_mA", "Load_Power_mW"} =>
          \E n \in AcceptedNames("Load_Power_mW") : HasColumn(csv, n)

(* C21: a column of the 3-sensor layout that the file's schema does not have  *)
(* (solar in a battery-only file, voltage and current of a channel that has   *)
(* only power) is unavailable in the loaded frame: no row holds a number      *)
(* there, in particular not 0; and the solar statistics and the efficiency    *)
(* of analyze_power_flow for a file without solar power are not numbers.      *)
C21_AbsentChannelUnavailable ==
    /\ GnssLoaded =>
          \A c \in Range(THREE_SENSOR_COLUMNS) : \A i \in 1..Len(df.rows) :
              (AbsentFromSchema(c) /\ HasColumn(df, c)) => ~IsFinite(df.rows[i][c])
    /\ (PowerFlowDone /\ AbsentFromSchema("Solar_Power_mW") /\ Len(df.rows) > 0) =>
          /\ ~IsFinite(power_analysis.solar.avg_power_mW)
          /\ ~IsFinite(power_analysis.solar.total_energy_mWh)
          /\ ~IsFinite(power_analysis.system_efficiency_pct)

(* the rows of the file, each cell as pd.to_numeric(errors='coerce') reads it *)
AsRead(i, c) == MissingIfUnparsed(csv.rows[i][c])

(* C22: when the GNSS loader keeps every row of the file, each voltage,       *)
(* current and power cell of the file has the same value in the loaded frame, *)
(* under the name it had in the file and under the Battery_* name of a        *)
(* Batt_* column; no reading of the file is replaced by the placeholder 0.    *)
C22_LosslessMapping ==
    (GnssLoaded /\ Len(df.rows) = Len(csv.rows)) =>
        \A i \in 1..Len(csv.rows) :
            /\ \A c \in Range(csv.columns) \cap numeric_columns(csv) :
                  df.rows[i][c] = AsRead(i, c)
            /\ \A c \in {"Battery_Voltage_V", "Battery_Current_mA", "Battery_Power_mW"} :
                  \A n \in AcceptedNames(c) \cap Range(csv.columns) :
                      (\A m \in AcceptedNames(c) \ {n} : ~HasColumn(csv, m)) =>
                          df.rows[i][c] = AsRead(i, n)

----------------------------------------------------------------------------
(* Properties of the arrival order *)

RECURSIVE ArrivalOrders(_)
(* every order in which the rows can arrive *)
ArrivalOrders(rows) ==
    IF Len(rows) = 0 THEN {<<>>}
    ELSE UNION {{<<rows[i]>> \o rest : rest \in ArrivalOrders(RemoveAt(rows, i))} :
                  i \in 1..Len(rows)}

DistinctTimestamps(rows) ==
    \A i, j \in 1..Len(rows) :
        i # j => rows[i]["EntryTimestamp_ms"] # rows[j]["EntryTimestamp_ms"]

(* the row with the smallest, and with the largest, timestamp *)
Earliest(rows) ==
    rows[CHOOSE i \in 1..Len(rows) : \A j \in 1..Len(rows) :
            rows[i]["EntryTimestamp_ms"] <= rows[j]["EntryTimestamp_ms"]]

Latest(rows) ==
    rows[CHOOSE i \in 1..Len(rows) : \A j \in 1..Len(rows) :
            rows[i]["EntryTimestamp_ms"] >= rows[j]["EntryTimestamp_ms"]]

(* the loaded frame with the rows of one state only, in the given order *)
Reordered(rows) == [columns |-> df.columns, rows |-> rows]

(* C23: for a state whose rows have pairwise distinct timestamps, the charge  *)
(* check and the energy check give the same entry for every arrival order of  *)
(* the rows, and the hardware deltas are the accumulator at the largest       *)
(* timestamp minus the accumulator at the smallest timestamp.                 *)
C23_ArrivalOrderIndependent ==
    pc = "done" =>
        \A s \in ValidatedStates(df) :
            LET sd == StateData(df.rows, s)
            IN  DistinctTimestamps(sd) =>
                  /\ \A p \in ArrivalOrders(sd) :
                        /\ ChargeEntries(Reordered(p), s) = {charge_validation[s]}
                        /\ EnergyEntries(Reordered(p), s) = {energy_analysis[s]}
                  /\ \A ch \in {"Batt", "Load"} :
                        /\ ChargeEntry(<<Earliest(sd), Latest(sd)>>)[
                               IF ch = "Batt" THEN "batt_hardware_charge_C"
                               ELSE "load_hardware_charge_C"]
                             = charge_validation[s][
                               IF ch = "Batt" THEN "batt_hardware_charge_C"
                               ELSE "load_hardware_charge_C"]
                        /\ EnergyEntry(<<Earliest(sd), Latest(sd)>>)[
                               IF ch = "Batt" THEN "batt_energy_consumed_J"
                               ELSE "load_energy_consumed_J"]
                             = energy_analysis[s][
                               IF ch = "Batt" THEN "batt_energy_consumed_J"
                               ELSE "load_energy_consumed_J"]
                  /\ energy_analysis[s].duration_s =
                        FDiv(Int2F(Latest(sd)["EntryTimestamp_ms"]
                                     - Earliest(sd)["EntryTimestamp_ms"]), Int2F(1000))

(* three rows of one state arrive as 2000 ms, 0 ms, 1000 ms; the accumulators *)
(* of the first and last arrival differ from those of the earliest and latest *)
(* row, and both checks returned an entry for the state                       *)
C23_Witness ==
    /\ pc = "done"
    /\ Len(df.rows) = 3
    /\ df.rows[1]["EntryTimestamp_ms"] = 2000
    /\ df.rows[2]["EntryTimestamp_ms"] = 0
    /\ df.rows[3]["EntryTimestamp_ms"] = 1000
    /\ df.rows[1]["Batt_Charge_C"] = Num(3, 10)
    /\ df.rows[2]["Batt_Charge_C"] = Num(1, 10)
    /\ df.rows[3]["Batt_Charge_C"] = Num(1, 10)
    /\ charge_validation["STATE_A"].batt_hardware_charge_C = Num(1, 5)
    /\ energy_analysis["STATE_A"].batt_energy_consumed_J = Num(2, 5)
    /\ energy_analysis["STATE_A"].duration_s = Int2F(2)

----------------------------------------------------------------------------
(* The five analysis functions called on one table, in any order and any     *)
(* number of times: validate_charge_accumulation, analyze_dual_sensors,      *)
(* analyze_energy_consumption, analyze_power_flow and                        *)
(* analyze_gnss_power_correlation. The table is a dual-sensor file with the  *)
(* GNSS flag, as load_gnss_power_data reads it: it has the columns every one *)
(* of the five reads. An exception leaves everything as it was.              *)

ANALYZER_COLUMNS == NEW_COLUMN_NAMES \o <<"GNSS_Valid">>

AnalyzerRows ==
    {[c \in Range(ANALYZER_COLUMNS) |->
         IF c = "GNSS_Valid" THEN flag
         ELSE Row15("R1", "STATE_A", ts,
                    Ch(Int2F(3), Int2F(100), Int2F(300), Num(ts, 1000), Num(ts, 10000)),
                    Ch(Int2F(3), Int2F(50), Int2F(150), Num(ts, 2000), Num(ts, 20000)))[c]] :
        <<ts, flag>> \in {<<0, "True">>, <<1000, "True">>, <<1000, "False">>}}

AnalyzerFiles == Files(ANALYZER_COLUMNS, AnalyzerRows)

(* variant: the rows of the table itself are sorted, not those of a copy *)
CallValidateCharge_sorts_table ==
    /\ pc = "analyzers"
    /\ ~validate_charge_accumulation_raises(df)
    /\ charge_validation' \in validate_charge_accumulation(df)
    /\ \E sorted \in sort_values(df.rows) : df' = [df EXCEPT !.rows = sorted]
    /\ UNCHANGED <<pc, csv, sensor_comparison, energy_analysis, report, power_analysis,
                   gnss_analysis>>

(* validate_charge_accumulation(df): works on df[...].copy() *)
CallValidateCharge ==
    /\ pc = "analyzers"
    /\ ~validate_charge_accumulation_raises(df)
    /\ charge_validation' \in validate_charge_accumulation(df)
    /\ UNCHANGED <<pc, csv, df, sensor_comparison, energy_analysis, report, power_analysis,
                   gnss_analysis>>

(* analyze_dual_sensors(df): reads the selection df[...] *)
CallAnalyzeDualSensors ==
    /\ pc = "analyzers"
    /\ ~analyze_dual_sensors_raises(df)
    /\ sensor_comparison' = analyze_dual_sensors(df)
    /\ UNCHANGED <<pc, csv, df, charge_validation, energy_analysis, report, power_analysis,
                   gnss_analysis>>

(* analyze_energy_consumption(df): works on df[...].copy() *)
CallAnalyzeEnergy ==
    /\ pc = "analyzers"
    /\ ~analyze_energy_consumption_raises(df)
    /\ energy_analysis' \in analyze_energy_consumption(df)
    /\ UNCHANGED <<pc, csv, df, charge_validation, sensor_comparison, report, power_analysis,
                   gnss_analysis>>

(* analyze_power_flow(df): reads columns of df *)
CallAnalyzePowerFlow ==
    /\ pc = "analyzers"
    /\ ~analyze_power_flow_raises(df)
    /\ power_analysis' = analyze_power_flow(df)
    /\ UNCHANGED <<pc, csv, df, charge_validation, sensor_comparison, energy_analysis, report,
                   gnss_analysis>>

(* analyze_gnss_power_correlation(df): reads the selections df[...] *)
CallAnalyzeGnssPowerCorrelation ==
    /\ pc = "analyzers"
    /\ gnss_analysis' = analyze_gnss_power_correlation(df)
    /\ UNCHANGED <<pc, csv, df, charge_validation, sensor_comparison, energy_analysis, report,
                   power_analysis>>

NextAnalyzers ==
    \/ CallValidateCharge
    \/ CallAnalyzeDualSensors
    \/ CallAnalyzeEnergy
    \/ CallAnalyzePowerFlow
    \/ CallAnalyzeGnssPowerCorrelation

InitAnalyzers ==
    /\ csv \in AnalyzerFiles
    /\ pc = "analyzers"
    /\ df = load_gnss_power_data(csv)
    /\ charge_validation = EmptyDict
    /\ sensor_comparison = EmptyDict
    /\ energy_analysis = EmptyDict
    /\ report = NoReport
    /\ power_analysis = EmptyDict
    /\ gnss_analysis = EmptyDict

SpecAnalyzers == InitAnalyzers /\ [][NextAnalyzers]_vars

(* the table as it was handed to the first call *)
TableAsLoaded == load_gnss_power_data(csv)

----------------------------------------------------------------------------
(* The Anomaly Repairer (column-shift repair of the legacy single-channel    *)
(* layout). Cells are the texts of the file; an empty cell is "".            *)

SENTINEL_STATE == "STATE_SHIFTED"

(* legacy rows: intact ones, and rows shifted left by one column, whose       *)
(* run id slot holds the sentinel state label                                 *)
RawRow6(run, state, ts, v, i, p) ==
    [TestRunID |-> run, TestState |-> state, EntryTimestamp_ms |-> ts,
     Voltage_V |-> v, Current_mA |-> i, Power_mW |-> p]

RepairRows ==
    {RawRow6(run, "STATE_A", "0", "3", "100", "300") : run \in {"R1", "R2"}}
        \cup {RawRow6(SENTINEL_STATE, ts, "3", "100", "300", "") : ts \in {"1000", "2000"}}

(* rows of another layout, intact or with the sentinel in the run id slot *)
OTHER_LAYOUT_COLUMNS == <<"TestRunID", "TestState", "EntryTimestamp_ms", "Batt_Voltage_V">>

OtherLayoutRows ==
    {[TestRunID |-> run, TestState |-> "STATE_A", EntryTimestamp_ms |-> "0",
      Batt_Voltage_V |-> "3"] : run \in {"R1", SENTINEL_STATE}}

RepairFiles ==
    Files(OLD_COLUMN_NAMES, RepairRows) \cup Files(OTHER_LAYOUT_COLUMNS, OtherLayoutRows)

(* the rows the repairer detects *)
is_shifted(row) == row["TestRunID"] = SENTINEL_STATE

(* variant: the realigned row keeps the label in the run id slot *)
realign_keeps_run_id(row) ==
    [row EXCEPT !["TestState"] = row["TestRunID"],
                !["EntryTimestamp_ms"] = row["TestState"],
                !["Voltage_V"] = row["EntryTimestamp_ms"],
                !["Current_mA"] = row["Voltage_V"]]

(* run id -> state, state -> timestamp, timestamp -> voltage, voltage ->      *)
(* current; the run id slot is left empty                                     *)
realign(row) ==
    [row EXCEPT !["TestRunID"] = "",
                !["TestState"] = row["TestRunID"],
                !["EntryTimestamp_ms"] = row["TestState"],
                !["Voltage_V"] = row["EntryTimestamp_ms"],
                !["Current_mA"] = row["Voltage_V"]]

(* the most recent non-empty run id of the rows before row i, "" when none *)
carried_run_id(rows, i) ==
    IF \E j \in 1..(i - 1) : rows[j]["TestRunID"] # ""
    THEN rows[CHOOSE j \in 1..(i - 1) :
                 /\ rows[j]["TestRunID"] # ""
                 /\ \A k \in (j + 1)..(i - 1) : rows[k]["TestRunID"] = ""]["TestRunID"]
    ELSE ""

(* the repair: realign the detected rows, then fill their run id *)
repair(d) ==
    IF d.columns # OLD_COLUMN_NAMES THEN d
    ELSE LET realigned == [i \in 1..Len(d.rows) |->
                              IF is_shifted(d.rows[i]) THEN realign(d.rows[i]) ELSE d.rows[i]]
         IN  [columns |-> d.columns,
              rows |-> [i \in 1..Len(d.rows) |->
                          IF is_shifted(d.rows[i])
                          THEN [realigned[i] EXCEPT
                                   !["TestRunID"] = carried_run_id(realigned, i)]
                          ELSE realigned[i]]]

(* the repairer applied to the table, twice in a row *)
Repair ==
    /\ pc \in {"repair", "repaired"}
    /\ df' = repair(df)
    /\ pc' = IF pc = "repair" THEN "repaired" ELSE "repaired_again"
    /\ UNCHANGED <<csv, charge_validation, sensor_comparison, energy_analysis, report,
                   power_analysis, gnss_analysis>>

NextRepair == Repair

InitRepair ==
    /\ csv \in RepairFiles
    /\ pc = "repair"
    /\ df = csv
    /\ charge_validation = EmptyDict
    /\ sensor_comparison = EmptyDict
    /\ energy_analysis = EmptyDict
    /\ report = NoReport
    /\ power_analysis = EmptyDict
    /\ gnss_analysis = EmptyDict

SpecRepair == InitRepair /\ [][NextRepair]_vars

(* C25: the repairer applied to a table that it has repaired once changes     *)
(* nothing; for the legacy layout, which is the one it repairs, no row of a   *)
(* repaired table has the sentinel state label in the run id column.          *)
C25_RepairIdempotent ==
    [][/\ pc = "repaired" => df' = df
       /\ (pc' \in {"repaired", "repaired_again"} /\ csv.columns = OLD_COLUMN_NAMES) =>
             \A i \in 1..Len(df'.rows) : ~is_shifted(df'.rows[i])]_vars

(* an intact row of run R1 followed by two shifted rows: the repair moved the *)
(* label to the state slot and carried R1 forward, and was applied again      *)
C25_Witness ==
    /\ pc = "repaired_again"
    /\ Len(csv.rows) = 3
    /\ csv.rows[1]["TestRunID"] = "R1"
    /\ is_shifted(csv.rows[2])
    /\ is_shifted(csv.rows[3])
    /\ df # csv
    /\ \A i \in 2..3 :
          /\ df.rows[i]["TestRunID"] = "R1"
          /\ df.rows[i]["TestState"] = SENTINEL_STATE
          /\ df.rows[i]["EntryTimestamp_ms"] = csv.rows[i]["TestState"]

----------------------------------------------------------------------------
(* power_comparison_analysis.py: analyze_power_comparison *)

COMPARISON_COLUMNS ==
    <<"TestRunID", "TestState", "EntryTimestamp_ms", "Batt_Voltage_V", "Batt_Current_mA",
      "Batt_Power_HW_mW", "Batt_Power_Calc_mW", "Load_Voltage_V", "Load_Current_mA",
      "Load_Power_HW_mW", "Load_Power_Calc_mW">>

ComparisonRow(batt_hw, batt_calc, load_calc) ==
    [TestRunID |-> "R1", TestState |-> "STATE_A", EntryTimestamp_ms |-> 0,
     Batt_Voltage_V |-> Int2F(3), Batt_Current_mA |-> Int2F(33),
     Batt_Power_HW_mW |-> Int2F(batt_hw), Batt_Power_Calc_mW |-> Int2F(batt_calc),
     Load_Voltage_V |-> Int2F(3), Load_Current_mA |-> Int2F(33),
     Load_Power_HW_mW |-> Int2F(100), Load_Power_Calc_mW |-> Int2F(load_calc)]

(* hardware power 100 mW against calculated power off by 0, 3, 12 and 20 %,   *)
(* and a row whose hardware power is 0                                        *)
ComparisonRows ==
    {ComparisonRow(100, bc, lc) : bc \in {100, 97, 88, 80}, lc \in {100, 112}}
        \cup {ComparisonRow(0, 50, 100)}

ComparisonFiles == Files(COMPARISON_COLUMNS, ComparisonRows)

(* np.where(hw != 0, (diff / hw) * 100, 0) *)
calc_error_pct(hw, diff) ==
    IF FNeq(hw, Int2F(0)) THEN FMul(FDiv(diff, hw), Int2F(100)) ELSE Int2F(0)

(* the difference and error columns the function adds to the frame *)
WithErrorColumns(d) ==
    LET b1 == AssignColumn(d, "Batt_Power_Diff_mW",
                  LAMBDA r : FSub(r["Batt_Power_HW_mW"], r["Batt_Power_Calc_mW"]))
        l1 == AssignColumn(b1, "Load_Power_Diff_mW",
                  LAMBDA r : FSub(r["Load_Power_HW_mW"], r["Load_Power_Calc_mW"]))
        b2 == AssignColumn(l1, "Batt_Power_Error_Pct",
                  LAMBDA r : calc_error_pct(r["Batt_Power_HW_mW"], r["Batt_Power_Diff_mW"]))
    IN  AssignColumn(b2, "Load_Power_Error_Pct",
                  LAMBDA r : calc_error_pct(r["Load_Power_HW_mW"], r["Load_Power_Diff_mW"]))

(* the conclusion printed for the two maximum errors: "EXCELLENT", "GOOD",    *)
(* or "REVIEW" for "may need review - high errors detected"                   *)
power_calculation_verdict(max_batt_error, max_load_error) ==
    IF FLt(max_batt_error, Int2F(5)) /\ FLt(max_load_error, Int2F(5)) THEN "EXCELLENT"
    ELSE IF FLt(max_batt_error, Int2F(10)) /\ FLt(max_load_error, Int2F(10)) THEN "GOOD"
    ELSE "REVIEW"

(* what analyze_power_comparison prints as validation conclusion *)
validation_conclusions(d) ==
    LET max_batt_error == SeriesAbsMax(Column(d.rows, "Batt_Power_Error_Pct"))
        max_load_error == SeriesAbsMax(Column(d.rows, "Load_Power_Error_Pct"))
    IN  [max_batt_error |-> max_batt_error,
         max_load_error |-> max_load_error,
         verdict        |-> power_calculation_verdict(max_batt_error, max_load_error)]

(* analyze_power_comparison(): the conclusion is printed; for a file without  *)
(* rows df['TestRunID'].iloc[0] then raises IndexError, which is caught, and  *)
(* the function returns None                                                  *)
AnalyzePowerComparison ==
    /\ pc = "compare"
    /\ df' = WithErrorColumns(csv)
    /\ report' = validation_conclusions(df')
    /\ pc' = IF Len(csv.rows) = 0 THEN "compare_failed" ELSE "compare_done"
    /\ UNCHANGED <<csv, charge_validation, sensor_comparison, energy_analysis, power_analysis,
                   gnss_analysis>>

NextCompare == AnalyzePowerComparison

InitCompare ==
    /\ csv \in ComparisonFiles
    /\ pc = "compare"
    /\ df = EmptyFrame
    /\ charge_validation = EmptyDict
    /\ sensor_comparison = EmptyDict
    /\ energy_analysis = EmptyDict
    /\ report = NoReport
    /\ power_analysis = EmptyDict
    /\ gnss_analysis = EmptyDict

SpecCompare == InitCompare /\ [][NextCompare]_vars

(* the tier of the report generator for the two errors together: EXCELLENT    *)
(* when both are, POOR when one is, GOOD otherwise                            *)
CombinedTier(batt_error, load_error) ==
    LET tiers == {validation_status(batt_error), validation_status(load_error)}
    IN  IF tiers = {"EXCELLENT"} THEN "EXCELLENT"
        ELSE IF "POOR" \in tiers THEN "POOR"
        ELSE "GOOD"

(* C26: the conclusion of analyze_power_comparison uses the tiers of the      *)
(* report generator: EXCELLENT when both maximum errors are below 5, GOOD     *)
(* when both are below 15 and not both below 5, and the poor conclusion       *)
(* ("may need review") otherwise.                                             *)
C26_SameTierThresholds ==
    pc = "compare_done" =>
        LET tier == CombinedTier(report.max_batt_error, report.max_load_error)
        IN  report.verdict = IF tier = "POOR" THEN "REVIEW" ELSE tier

----------------------------------------------------------------------------
(* Properties of the zero-duration state and of the skip of the charge check *)

EnergyDone == pc \in {"report", "done"}

(* a state of at least 2 rows that all have the same timestamp *)
ZeroDuration(s) ==
    LET sd == StateData(df.rows, s)
    IN  /\ Len(sd) >= 2
        /\ \A i \in 1..Len(sd) : sd[i]["EntryTimestamp_ms"] = sd[1]["EntryTimestamp_ms"]

(* C27: for a state of at least 2 rows whose smallest and largest timestamp   *)
(* are equal, analyze_energy_consumption returns an entry (the run does not   *)
(* end in an exception) whose duration is 0 and whose power-from-energy and   *)
(* error percentage, of both channels, are not finite numbers.                *)
C27_ZeroDurationUndefined ==
    /\ (pc = "error" /\ Loaded) => \A s \in UniqueStates(df.rows) : ~ZeroDuration(s)
    /\ EnergyDone =>
          \A s \in UniqueStates(df.rows) :
              ZeroDuration(s) =>
                  /\ s \in DOMAIN energy_analysis
                  /\ IsZero(energy_analysis[s].duration_s)
                  /\ ~IsFinite(energy_analysis[s].batt_power_from_energy_mW)
                  /\ ~IsFinite(energy_analysis[s].load_power_from_energy_mW)
                  /\ ~IsFinite(energy_analysis[s].batt_power_error_pct)
                  /\ ~IsFinite(energy_analysis[s].load_power_error_pct)

(* two rows of STATE_A at the same time: the battery energy differs between   *)
(* them (power-from-energy is infinite), the program ran to its end           *)
C27_Witness ==
    /\ pc = "done"
    /\ ZeroDuration("STATE_A")
    /\ Len(StateData(df.rows, "STATE_A")) = 2
    /\ energy_analysis["STATE_A"].batt_energy_consumed_J = Num(1, 10)
    /\ energy_analysis["STATE_A"].batt_power_from_energy_mW = Inf(1)
    /\ energy_analysis["STATE_A"].batt_power_error_pct = Inf(1)

(* C28: for a 15-column file, whose charge columns are measured data,         *)
(* validate_charge_accumulation returns an entry for every state of at least  *)
(* 2 rows, whatever the values of the charge columns are, all-zero            *)
(* accumulators included.                                                     *)
C28_ChargeCheckRunsOnRealData ==
    (ChargeDone /\ IsDualSensor) =>
        \A s \in ValidatedStates(df) : s \in DOMAIN charge_validation

====
